---- MODULE Spec2Model ----
(***************************************************************************)
(* Rule compiler of spectra_lexer: RuleParser (steno/rules.py) resolves a  *)
(* dict of raw rule definitions, written in bracket notation, into         *)
(* StenoRule objects, lazily and with memoization.  StenoRuleParser        *)
(* (rules/parser.py) is the eager compiler of the same notation, and       *)
(* LexerRuleMatcher (lexer/match.py) files finished rules into the four    *)
(* lookup structures the lexer matches against.                            *)
(* InverseRuleParser and IndexCompiler (steno/rules.py) write raw rules    *)
(* and the index of examples; DiscordBot and DiscordApplication            *)
(* (app_discord.py), PloverPluginInterface (plover/interface.py) and       *)
(* QtGUIExtension (gui_qt/ext/base.py) are the front ends that call them.  *)
(*                                                                         *)
(* Strings of the program are sequences of one-character strings, so that  *)
(* list.index, slicing, str.split and slice assignment are computed the    *)
(* way the code computes them.  Offsets stored in rule maps are 0-based,   *)
(* as in Python; positions inside the operators are 1-based.               *)
(***************************************************************************)
EXTENDS Integers, Sequences, FiniteSets, TLC

VARIABLES
    raw,         \* RuleParser._raw_rules: name -> raw definition (list of fields)
    rules,       \* RuleParser._rules: name -> finished StenoRule
    nextId,      \* identity of the next StenoRule object constructed
    parseCount,  \* history: number of times _parse(k) was entered, per name
    last,        \* the last call made on the parser and its outcome
    errored,     \* history: some call on this parser has raised
    src_dict,    \* StenoRuleParser._src_dict: name -> raw definition
    parser_dict, \* StenoRuleParser as a dict: name -> finished StenoRule tuple
    built,       \* the outcome of StenoRuleParser(src_dict)
    rules_dict,  \* the dict of finished rules a LexerRuleMatcher is constructed from
    special_dict,\* LexerRuleMatcher._special_dict: name -> rule
    stroke_dict, \* LexerRuleMatcher._stroke_dict: keys -> rule
    word_dict,   \* LexerRuleMatcher._word_dict: letters -> rule
    prefix_tree, \* LexerRuleMatcher._prefix_tree: the entries of the prefix index
    matched,     \* the last call made on the matcher and what it returned
    threads,     \* the threads calling one RuleParser: request, call stack, result
    parsedBy,    \* history: the names each thread has entered _parse for
    analysis,    \* the last call made on the analyzer and what it returned
    stenokeys,   \* the last call made on StenoKeys and what it returned
    inverse,     \* InverseRuleParser._raw_rules and the rules it was given
    index,       \* the dicts of the IndexCompilers of the shards, and what they were given
    plover,      \* PloverPluginInterface: the saved strokes and text, and the last call
    gui,         \* QtGUIExtension: the widgets' enabled state and the index build
    bot          \* DiscordBot: its commands, the message in hand, what it has sent

\* the variables of each component
parserVars == <<raw, rules, nextId, parseCount, last, errored>>
stenoVars == <<src_dict, parser_dict, built>>
indexVars == <<special_dict, stroke_dict, word_dict, prefix_tree>>
matcherVars == <<rules_dict, indexVars, matched>>
threadVars == <<threads, parsedBy>>
analyzerVars == <<analysis>>
keysVars == <<stenokeys>>
inverseVars == <<inverse>>
appVars == <<index, plover, gui, bot>>

vars == <<parserVars, stenoVars, matcherVars, threadVars, analyzerVars, keysVars, inverseVars, appVars>>

----------------------------------------------------------------------------
(* Bounds of the model. *)

\* Depth of nested _parse calls at which the interpreter raises RecursionError.
RecursionLimit == 4
\* No further call is made once some name was parsed this many times.
MaxParses == 2

----------------------------------------------------------------------------
(* Characters and names. *)

lb == "("
rb == ")"
alias_delim == "|"

NameA == <<"A">>
NameB == <<"B">>
NameC == <<"C">>
NameZ == <<"Z">>            \* a name that is never defined

Names == {NameA, NameB, NameC}
\* dict iteration order of _raw_rules (insertion order)
RawOrder == <<NameA, NameB, NameC>>
\* the empty string as the name of a rule
NameE == <<>>
\* str(0), the name InverseRuleParser gives the first rule it is given
Name0 == <<"0">>
\* a name that holds the alias delimiter
NameBar == <<"B", "|", "C">>

Range(s) == {s[i] : i \in DOMAIN s}
Max(a, b) == IF a >= b THEN a ELSE b

\* list.index(c): 1-based position of the first occurrence (c must occur)
IndexOf(s, c) == CHOOSE i \in DOMAIN s : s[i] = c /\ \A j \in 1..(i - 1) : s[j] # c

\* "".join(chars): a string of the program as one flag name
RECURSIVE Join(_)
Join(chars) == IF chars = <<>> THEN "" ELSE Head(chars) \o Join(Tail(chars))

\* s.split(d): the pieces of s between the occurrences of d
RECURSIVE SplitSeq(_, _)
SplitSeq(s, d) ==
    IF d \notin Range(s) THEN <<s>>
    ELSE <<SubSeq(s, 1, IndexOf(s, d) - 1)>>
            \o SplitSeq(SubSeq(s, IndexOf(s, d) + 1, Len(s)), d)

\* flag_str.split("|"), a list of flag names
SplitFlags(flag_str) == [i \in DOMAIN SplitSeq(flag_str, "|") |-> Join(SplitSeq(flag_str, "|")[i])]

----------------------------------------------------------------------------
(* Outcomes of a call: a returned value or a raised exception.  An         *)
(* exception carries what its message names: the message template (kind),  *)
(* the rule name, the reference and the pattern text interpolated into it, *)
(* and the chain of its causes ("raise ... from e"), nearest first.        *)
(* Absent parts are the empty sequence, present ones a one-element         *)
(* sequence.                                                               *)

Outcome(t, kd, r, rf, p, v, c) ==
    [type |-> t, kind |-> kd, rule |-> r, ref |-> rf, pattern |-> p,
     value |-> v, cause |-> c]

\* return v (v = <<>> models None, <<rule>> a StenoRule, a longer sequence a list)
Returned(v) == Outcome("return", "", <<>>, <<>>, <<>>, v, <<>>)

Summary(e) == [type |-> e.type, kind |-> e.kind, rule |-> e.rule, ref |-> e.ref]
CauseChain(e) == <<Summary(e)>> \o e.cause

\* ValueError(f"Not enough fields for rule {k}")
NotEnoughFields(k) == Outcome("ValueError", "NotEnoughFields", <<k>>, <<>>, <<>>, <<>>, <<>>)
\* ValueError(f"Too many fields for rule {k}: extra = {optional}")
TooManyFields(k) == Outcome("ValueError", "TooManyFields", <<k>>, <<>>, <<>>, <<>>, <<>>)
\* raise ValueError(f"Unmatched brackets in rule {k}") from e
UnmatchedBrackets(k, e) ==
    Outcome("ValueError", "UnmatchedBrackets", <<k>>, <<>>, <<>>, <<>>, CauseChain(e))
\* raise RecursionError(f"Circular reference descended from rule {k}") from e
CircularReference(k, e) ==
    Outcome("RecursionError", "CircularReference", <<k>>, <<>>, <<>>, <<>>, CauseChain(e))
\* the message with its two arguments the other way round
IllegalReference_Swapped(k, pattern) ==
    Outcome("KeyError", "IllegalReference", <<>>, <<pattern>>, <<k>>, <<>>, <<>>)

\* KeyError(f"Illegal rule reference {k} in pattern {pattern}")
IllegalReference(k, pattern) ==
    Outcome("KeyError", "IllegalReference", <<>>, <<k>>, <<pattern>>, <<>>, <<>>)
\* ValueError of list.index(rb) when no right bracket is in the list
NotInList == Outcome("ValueError", "NotInList", <<>>, <<>>, <<>>, <<>>, <<>>)
\* RecursionError of the interpreter: maximum recursion depth exceeded
MaxRecursionDepth == Outcome("RecursionError", "MaxRecursionDepth", <<>>, <<>>, <<>>, <<>>, <<>>)
\* the while loop of _substitute never ends (no exception, no return)
NeverReturns == Outcome("NoReturn", "EndlessLoop", <<>>, <<>>, <<>>, <<>>, <<>>)

IsError(o) == o.type # "return"

----------------------------------------------------------------------------
(* StenoRule and RuleMapItem. *)

RuleMapItem(name, start, length) == [name |-> name, start |-> start, length |-> length]

StenoRule(name, keys, letters, flags, desc, rulemap, id) ==
    [name |-> name, keys |-> keys, letters |-> letters, flags |-> flags,
     desc |-> desc, rulemap |-> rulemap, id |-> id]

----------------------------------------------------------------------------
(* RuleParser.  The parser state threaded through the mutually recursive   *)
(* calls is st = [rules, nextId, parseCount]; depth counts the _parse      *)
(* frames on the call stack.                                               *)

ParserState(r, n, c) == [rules |-> r, nextId |-> n, parseCount |-> c]

\* reference.split(alias_delim, 1): *alias, k
HasAlias(reference) == alias_delim \in Range(reference)
AliasOf(reference) == SubSeq(reference, 1, IndexOf(reference, alias_delim) - 1)
KeyOf(reference) ==
    IF HasAlias(reference)
    THEN SubSeq(reference, IndexOf(reference, alias_delim) + 1, Len(reference))
    ELSE reference

\* a slice that ends one short: the right bracket stays in the list
SliceAssign_KeepsBracket(p_list, s, e, letters) ==
    SubSeq(p_list, 1, s - 1) \o letters \o SubSeq(p_list, Max(s, e), Len(p_list))

\* p_list[start:end] = letters, with start = s - 1 and end = e for the 1-based
\* positions s of lb and e of rb (an empty slice, end <= start, inserts at start)
SliceAssign(p_list, s, e, letters) ==
    SubSeq(p_list, 1, s - 1) \o letters \o SubSeq(p_list, Max(s, e + 1), Len(p_list))

\* the item put at the front of the list
AddItem_AtFront(rulemap, item) == <<item>> \o rulemap

\* rulemap.append(item)
AddItem(rulemap, item) == Append(rulemap, item)

RECURSIVE Get(_, _, _)
RECURSIVE Parse(_, _, _)
RECURSIVE SubstituteLoop(_, _, _, _, _)

\* a lookup that parses the raw rule again although the name is resolved
Get_NoCache(k, st, depth) ==
    IF k \notin DOMAIN raw THEN [st |-> st, out |-> Returned(<<>>)]
    ELSE Parse(k, st, depth)

\* RuleParser.get
Get(k, st, depth) ==
    IF k \in DOMAIN st.rules THEN [st |-> st, out |-> Returned(<<st.rules[k]>>)]
    ELSE IF k \notin DOMAIN raw THEN [st |-> st, out |-> Returned(<<>>)]
    ELSE Parse(k, st, depth)

\* RuleParser._substitute, one iteration of the while loop on the current
\* p_list and rulemap; pattern is the argument, kept for the error message
SubstituteLoop(pattern, p_list, rulemap, st, depth) ==
    IF lb \notin Range(p_list)
    THEN [st |-> st, out |-> Returned(<<>>), letters |-> p_list, rulemap |-> rulemap]
    ELSE IF rb \notin Range(p_list)
    THEN [st |-> st, out |-> NotInList, letters |-> <<>>, rulemap |-> <<>>]
    ELSE
      LET s == IndexOf(p_list, lb)
          e == IndexOf(p_list, rb)
          reference == SubSeq(p_list, s + 1, e - 1)
          k == KeyOf(reference)
          g == Get(k, st, depth)
      IN  IF IsError(g.out)
          THEN [st |-> g.st, out |-> g.out, letters |-> <<>>, rulemap |-> <<>>]
          ELSE IF g.out.value = <<>>
          THEN [st |-> g.st, out |-> IllegalReference(k, pattern),
                letters |-> <<>>, rulemap |-> <<>>]
          ELSE IF e < s
          \* the slice is empty: letters are inserted before lb, which stays, and
          \* rb stays before it: every later iteration is this one again
          THEN [st |-> g.st, out |-> NeverReturns, letters |-> <<>>, rulemap |-> <<>>]
          ELSE
            LET letters == IF HasAlias(reference) THEN AliasOf(reference)
                           ELSE g.out.value[1].letters
            IN  SubstituteLoop(pattern,
                               SliceAssign(p_list, s, e, letters),
                               AddItem(rulemap, RuleMapItem(k, s - 1, Len(letters))),
                               g.st, depth)

\* RuleParser._substitute
Substitute(pattern, st, depth) == SubstituteLoop(pattern, pattern, <<>>, st, depth)

\* frozenset(flags) of a str that is split at "|" first
frozenset_SplitsPipes(flags) ==
    IF "|" \in {flags[i] : i \in DOMAIN flags}
    THEN {SplitFlags(flags)[i] : i \in DOMAIN SplitFlags(flags)}
    ELSE {flags[i] : i \in DOMAIN flags}

\* RuleParser._parse, line 87: frozenset(flags), the set of the elements of
\* an iterable; the elements of a str are its characters
frozenset(flags) == {flags[i] : i \in DOMAIN flags}

\* the unpacking without the check for fields left over
UnpackFields_ExtraIgnored(k, raw_rule) ==
    LET n == Len(raw_rule)
    IN  [out |-> IF n < 2 THEN NotEnoughFields(k) ELSE Returned(<<>>),
         keys |-> IF n >= 1 THEN raw_rule[1] ELSE "",
         pattern |-> IF n >= 2 THEN raw_rule[2] ELSE <<>>,
         flags |-> IF n >= 3 THEN raw_rule[3] ELSE <<>>,
         desc |-> IF n >= 4 THEN raw_rule[4] ELSE ""]

\* RuleParser._parse, lines 70-78: unpack the fields of the raw rule
UnpackFields(k, raw_rule) ==
    LET n == Len(raw_rule)
    IN  [out |-> IF n < 2 THEN NotEnoughFields(k)
                 ELSE IF n > 4 THEN TooManyFields(k)
                 ELSE Returned(<<>>),
         keys |-> IF n >= 1 THEN raw_rule[1] ELSE "",
         pattern |-> IF n >= 2 THEN raw_rule[2] ELSE <<>>,
         flags |-> IF n >= 3 THEN raw_rule[3] ELSE <<>>,
         desc |-> IF n >= 4 THEN raw_rule[4] ELSE ""]

\* the except clauses without the one for RecursionError
SubstituteError_NoRecursionClause(k, e) ==
    IF e.type = "ValueError" THEN UnmatchedBrackets(k, e) ELSE e

\* RuleParser._parse, lines 80-85: the except clauses around _substitute
SubstituteError(k, e) ==
    IF e.type = "ValueError" THEN UnmatchedBrackets(k, e)
    ELSE IF e.type = "RecursionError" THEN CircularReference(k, e)
    ELSE e

\* RuleParser._parse, line 89: self._rules[k] = StenoRule(...)
StoreRule(st, k, rule) ==
    [st EXCEPT !.rules = (k :> rule) @@ @, !.nextId = @ + 1]

\* _parse storing the rule under its name before its pattern is resolved, so
\* that a failure leaves the unfinished rule in the dict
Parse_StoresEarly(k, st, depth) ==
    LET entered == [st EXCEPT !.parseCount[k] = @ + 1]
        f == UnpackFields(k, raw[k])
    IN  IF depth >= RecursionLimit THEN [st |-> st, out |-> MaxRecursionDepth]
        ELSE IF IsError(f.out) THEN [st |-> entered, out |-> f.out]
        ELSE
          LET sub == Substitute(f.pattern, entered, depth + 1)
              unfinished == StenoRule(k, f.keys, <<>>, frozenset(f.flags), f.desc, <<>>,
                                      sub.st.nextId)
          IN  IF IsError(sub.out)
              THEN [st |-> StoreRule(sub.st, k, unfinished),
                    out |-> SubstituteError(k, sub.out)]
              ELSE
                LET rule == StenoRule(k, f.keys, sub.letters, frozenset(f.flags), f.desc,
                                      sub.rulemap, sub.st.nextId)
                IN  [st |-> StoreRule(sub.st, k, rule), out |-> Returned(<<rule>>)]

\* RuleParser._parse
Parse(k, st, depth) ==
    LET entered == [st EXCEPT !.parseCount[k] = @ + 1]
        f == UnpackFields(k, raw[k])
    IN  IF depth >= RecursionLimit THEN [st |-> st, out |-> MaxRecursionDepth]
        ELSE IF IsError(f.out) THEN [st |-> entered, out |-> f.out]
        ELSE
          LET sub == Substitute(f.pattern, entered, depth + 1)
          IN  IF IsError(sub.out)
              THEN [st |-> sub.st, out |-> SubstituteError(k, sub.out)]
              ELSE
                LET rule == StenoRule(k, f.keys, sub.letters, frozenset(f.flags), f.desc,
                                      sub.rulemap, sub.st.nextId)
                IN  [st |-> StoreRule(sub.st, k, rule), out |-> Returned(<<rule>>)]

\* the keys of self._raw_rules in the order of iteration: the rule an
\* InverseRuleParser has made, where the raw rules have one, is defined first,
\* a rule of the empty name last
RawKeys ==
    IF DOMAIN raw = Names THEN RawOrder
    ELSE SelectSeq(<<Name0, NameA, NameB, NameC, NameBar, NameE>>, LAMBDA k : k \in DOMAIN raw)

RECURSIVE ToListFrom(_, _, _)
\* RuleParser.to_list: [*map(self.get, self._raw_rules)], from the i-th name on
ToListFrom(i, acc, st) ==
    IF i > Len(RawKeys) THEN [st |-> st, out |-> Returned(acc)]
    ELSE LET g == Get(RawKeys[i], st, 0)
         IN  IF IsError(g.out) THEN g
             ELSE ToListFrom(i + 1, acc \o g.out.value, g.st)

\* to_list that returns the values of the store, which a dict keeps in the
\* order of their insertion
ToList_InsertionOrder(st) ==
    LET ordered(r) ==
            IF IsError(r.out) THEN r
            ELSE [r EXCEPT !.out = Returned(SortSeq(r.out.value, LAMBDA x, y : x.id < y.id))]
    IN  ordered(ToListFrom(1, <<>>, st))

\* RuleParser.to_list
ToList(st) == ToListFrom(1, <<>>, st)

----------------------------------------------------------------------------
(* Raw rule sets the parser is constructed with. *)

Ref(n) == <<lb>> \o n \o <<rb>>
AliasRef(a, n) == <<lb>> \o a \o <<alias_delim>> \o n \o <<rb>>

Patterns ==
    \* literal text, with and without stray delimiters
    {<<>>, <<"a">>, <<"a", rb>>, <<lb, "a">>}
    \* one reference, to a defined or an undefined name; an empty reference
    \cup {Ref(n) : n \in Names \cup {NameZ, <<>>}}
    \cup {Ref(NameC) \o Ref(NameZ)}
    \* (x)e(y), as in the docstring of _substitute
    \cup {Ref(NameB) \o <<"e">> \o Ref(NameC), Ref(NameC) \o <<"e">> \o Ref(NameC),
          Ref(NameB) \o Ref(NameC)}
    \* aliased references: letters given apart from the name
    \cup {AliasRef(<<"u", "v">>, NameB) \o Ref(NameC), AliasRef(<<"u", "v">>, NameC),
          AliasRef(<<>>, NameC)}
    \* an alias that holds a left bracket, and a right bracket before the left one
    \cup {AliasRef(<<lb>>, NameB) \o NameC \o <<rb>>,
          AliasRef(<<lb>>, NameC) \o NameC \o <<rb>>,
          <<rb>> \o Ref(NameC)}

Definitions ==
    \* [keys, pattern]
    {<<"K", p>> : p \in Patterns}
    \* too few and too many fields
    \cup {<<>>, <<"K">>, <<"K", <<"a">>, <<"RARE">>, "d", "x">>}
    \* [keys, pattern, flags] and [keys, pattern, flags, desc]
    \cup {<<"K", <<"a">>, <<"STRK", "RARE">>>>, <<"K", <<"b">>, <<>>, "d">>}
    \* [keys, pattern, flags] with the flags in one str, 'STRK|RARE'
    \cup {<<"K", <<"a">>, <<"S", "T", "R", "K", "|", "R", "A", "R", "E">>>>}

----------------------------------------------------------------------------
(* The state machine: a parser constructed on some raw rule set, and the   *)
(* calls made on it, one after the other.                                  *)

EmptyRules == [k \in {} |-> 0]

\* no StenoRuleParser is part of the run
NoStenoRuleParser == src_dict = <<>> /\ parser_dict = <<>> /\ built = <<>>

\* no LexerRuleMatcher is part of the run
NoMatcher ==
    /\ rules_dict = <<>> /\ special_dict = <<>> /\ stroke_dict = <<>>
    /\ word_dict = <<>> /\ prefix_tree = <<>> /\ matched = <<>>

\* the parser is called by one caller, one call after the other
NoThreads == threads = <<>> /\ parsedBy = <<>>

\* no analyzer has been called
NoAnalyzer == analysis = <<>>

\* no StenoKeys call and no InverseRuleParser are part of the run
NoStenoKeys == stenokeys = <<>>
NoInverse == inverse = <<>>
NoIndexCompiler == index = <<>>
NoPlover == plover = <<>>
NoGUI == gui = <<>>
NoBot == bot = <<>>
NoApps == NoIndexCompiler /\ NoPlover /\ NoGUI /\ NoBot

Init ==
    /\ NoStenoRuleParser
    /\ NoMatcher
    /\ NoThreads
    /\ NoAnalyzer
    /\ NoStenoKeys
    /\ NoInverse
    /\ NoApps
    /\ raw \in [Names -> Definitions]
    /\ rules = EmptyRules
    /\ nextId = 0
    /\ parseCount = [k \in Names |-> 0]
    /\ last = [op |-> "init", arg |-> <<>>, out |-> Returned(<<>>)]
    /\ errored = FALSE

CanCall == \A k \in DOMAIN raw : parseCount[k] < MaxParses

Apply(op, arg, r) ==
    /\ rules' = r.st.rules
    /\ nextId' = r.st.nextId
    /\ parseCount' = r.st.parseCount
    /\ last' = [op |-> op, arg |-> arg, out |-> r.out]
    /\ errored' = (errored \/ IsError(r.out))
    /\ UNCHANGED <<raw, stenoVars, matcherVars, threadVars, analyzerVars, keysVars,
                 inverseVars, appVars>>

\* a caller evaluates parser.get(k)
CallGet(k) ==
    /\ CanCall
    /\ Apply("get", <<k>>, Get(k, ParserState(rules, nextId, parseCount), 0))

\* a caller evaluates parser.to_list()
CallToList ==
    /\ CanCall
    /\ Apply("to_list", <<>>, ToList(ParserState(rules, nextId, parseCount)))

Next ==
    \/ \E k \in Names \cup {NameZ} : CallGet(k)
    \/ CallToList

Spec == Init /\ [][Next]_vars

----------------------------------------------------------------------------
(* The notation of patterns, read in one pass from left to right: literal  *)
(* characters and bracketed spans (ref) or (alias|ref).  These definitions *)
(* state what the claims say of a pattern; the parser does not use them.   *)

Brackets(p) == SelectSeq(p, LAMBDA c : c \in {lb, rb})

\* the delimiters alternate: every left bracket is closed before the next opens
WellFormed(p) ==
    LET bs == Brackets(p)
    IN  /\ Len(bs) % 2 = 0
        /\ \A i \in DOMAIN bs : bs[i] = (IF i % 2 = 1 THEN lb ELSE rb)

\* position of the first right bracket after position i
ClosingOf(p, i) == CHOOSE j \in (i + 1)..Len(p) : p[j] = rb /\ \A m \in (i + 1)..(j - 1) : p[m] # rb

Bars(content) == {i \in DOMAIN content : content[i] = alias_delim}
FirstBar(content) == CHOOSE i \in Bars(content) : \A j \in Bars(content) : i <= j
SpanName(content) ==
    IF Bars(content) = {} THEN content
    ELSE [i \in 1..(Len(content) - FirstBar(content)) |-> content[FirstBar(content) + i]]
SpanAlias(content) == [i \in 1..(FirstBar(content) - 1) |-> content[i]]

\* the spans of a well-formed pattern, in order: [name, alias (<<>> or <<text>>)]
RECURSIVE SpansFrom(_, _)
SpansFrom(p, i) ==
    IF i > Len(p) THEN <<>>
    ELSE IF p[i] = lb
    THEN LET j == ClosingOf(p, i)
             content == SubSeq(p, i + 1, j - 1)
         IN  <<[name |-> SpanName(content),
                alias |-> IF Bars(content) = {} THEN <<>> ELSE <<SpanAlias(content)>>]>>
             \o SpansFrom(p, j + 1)
    ELSE SpansFrom(p, i + 1)
Spans(p) == SpansFrom(p, 1)

\* letters and rule map a well-formed pattern stands for, given the letters of
\* the rules in store
RECURSIVE ExpectedFrom(_, _, _, _, _)
ExpectedFrom(p, i, letters, map, store) ==
    IF i > Len(p) THEN [letters |-> letters, rulemap |-> map]
    ELSE IF p[i] = lb
    THEN LET j == ClosingOf(p, i)
             content == SubSeq(p, i + 1, j - 1)
             name == SpanName(content)
             text == IF Bars(content) = {} THEN store[name].letters ELSE SpanAlias(content)
         IN  ExpectedFrom(p, j + 1, letters \o text,
                          Append(map, [name |-> name, start |-> Len(letters),
                                       length |-> Len(text)]),
                          store)
    ELSE ExpectedFrom(p, i + 1, Append(letters, p[i]), map, store)
Expected(p, store) == ExpectedFrom(p, 1, <<>>, <<>>, store)

----------------------------------------------------------------------------
(* C1 *)

\* C1: for every stored rule whose pattern is literal text and spans (ref) or
\* (alias|ref), the letters are the pattern with each span, left to right,
\* replaced by its alias or else by the letters of the referenced rule, and the
\* rule map has one entry per span, in order: (ref, offset of the substituted
\* text in the letters, length of the substituted text).
C1_SubstituteSpans ==
    \A k \in DOMAIN rules :
        WellFormed(raw[k][2]) =>
            /\ \A i \in DOMAIN Spans(raw[k][2]) : Spans(raw[k][2])[i].name \in DOMAIN rules
            /\ rules[k].letters = Expected(raw[k][2], rules).letters
            /\ rules[k].rulemap = Expected(raw[k][2], rules).rulemap
            /\ Len(rules[k].rulemap) = Len(Spans(raw[k][2]))

\* a rule of two spans is stored, the first aliased, the second at a later offset
C1_Witness ==
    \E k \in DOMAIN rules :
        /\ WellFormed(raw[k][2])
        /\ Len(rules[k].rulemap) = 2
        /\ Spans(raw[k][2])[1].alias # <<>>
        /\ rules[k].rulemap[2].start > 0
        /\ rules[k].rulemap[2].length > 0

----------------------------------------------------------------------------
(* C2 *)

\* C2: as long as no call has raised, no name was parsed more than once; a
\* stored rule is never replaced or removed; every rule a call returns is the
\* object in store under its name, so a lookup of a resolved name returns the
\* rule stored by its first resolution.
C2_Memoized ==
    [][/\ (~errored' => \A k \in Names : parseCount'[k] <= 1)
       /\ \A k \in DOMAIN rules : k \in DOMAIN rules' /\ rules'[k] = rules[k]
       /\ \A i \in DOMAIN last'.out.value :
              /\ last'.out.value[i].name \in DOMAIN rules'
              /\ rules'[last'.out.value[i].name] = last'.out.value[i]
       /\ (last'.op = "get" /\ last'.out.value # <<>>
              => last'.out.value[1].name = last'.arg[1])
       /\ (last'.op = "to_list" /\ ~IsError(last'.out)
              => last'.out.value = [i \in DOMAIN RawOrder |-> rules'[RawOrder[i]]])
      ]_vars

\* without any error, a get returned a rule that is not the newest object: the
\* name had been resolved by an earlier call
C2_Witness ==
    /\ ~errored
    /\ last.op = "get"
    /\ last.out.value # <<>>
    /\ last.out.value[1].id + 1 < nextId
    /\ parseCount[last.arg[1]] = 1

----------------------------------------------------------------------------
(* The references between raw rules, read off the raw definitions. *)

FieldsOk(k) == Len(raw[k]) \in 2..4

\* names a rule's pattern refers to
Edges(k) ==
    IF FieldsOk(k) /\ WellFormed(raw[k][2])
    THEN {Spans(raw[k][2])[i].name : i \in DOMAIN Spans(raw[k][2])}
    ELSE {}

RECURSIVE ReachIn(_, _)
ReachIn(S, n) ==
    IF n = 0 THEN S
    ELSE ReachIn(S \cup UNION {Edges(j) : j \in S \cap Names}, n - 1)
\* names reachable from k through one or more references
Reach(k) == ReachIn(Edges(k), Cardinality(Names))

\* k and all it reaches are defined, have 2 to 4 fields and a well-formed pattern
Clean(k) == FieldsOk(k) /\ WellFormed(raw[k][2]) /\ Edges(k) \subseteq Names
CleanClosure(k) == Clean(k) /\ \A j \in Reach(k) : j \in Names /\ Clean(j)

OnCycle(k) == k \in Reach(k)
ReachesCycle(k) == OnCycle(k) \/ \E j \in Reach(k) \cap Names : OnCycle(j)

----------------------------------------------------------------------------
(* C3 *)

----------------------------------------------------------------------------
(* C4 *)

\* k has 2 to 4 fields and a well-formed pattern
Clean4(k) == FieldsOk(k) /\ WellFormed(raw[k][2])

\* the i-th span of k's pattern names no defined rule, and the spans before it
\* name rules that resolve
UnknownAt(k, i) ==
    /\ Spans(raw[k][2])[i].name \notin DOMAIN raw
    /\ Spans(raw[k][2])[i].name \notin DOMAIN rules
    /\ \A j \in 1..(i - 1) :
           /\ Spans(raw[k][2])[j].name \in Names
           /\ CleanClosure(Spans(raw[k][2])[j].name)
           /\ ~ReachesCycle(Spans(raw[k][2])[j].name)

----------------------------------------------------------------------------
(* C5 *)

----------------------------------------------------------------------------
(* C6 *)

\* the reference delimiters of p are unbalanced: a left bracket with no later
\* right bracket, a right bracket and no left bracket, or a right bracket before
\* the first left bracket
Unbalanced(p) ==
    \/ \E i \in DOMAIN p : p[i] = lb /\ \A j \in (i + 1)..Len(p) : p[j] # rb
    \/ rb \in Range(p) /\ lb \notin Range(p)
    \/ /\ rb \in Range(p) /\ lb \in Range(p)
       /\ \E i \in DOMAIN p : p[i] = rb /\ \A j \in 1..i : p[j] # lb

\* C6: resolving a rule whose pattern has unbalanced delimiters fails with the
\* unmatched-bracket error naming the rule, and no stored rule's letters hold a
\* reference delimiter.
C6_UnmatchedRejected ==
    /\ (last.op = "get" /\ last.arg[1] \in Names /\ FieldsOk(last.arg[1])
            /\ Unbalanced(raw[last.arg[1]][2])
          => /\ last.out.type = "ValueError"
             /\ last.out.kind = "UnmatchedBrackets"
             /\ last.out.rule = last.arg)
    /\ \A k \in DOMAIN rules :
           lb \notin Range(rules[k].letters) /\ rb \notin Range(rules[k].letters)

----------------------------------------------------------------------------
(* C7 *)

FieldCountError(k) ==
    [type |-> "ValueError",
     kind |-> IF Len(raw[k]) < 2 THEN "NotEnoughFields" ELSE "TooManyFields",
     rule |-> <<k>>, ref |-> <<>>]

----------------------------------------------------------------------------
(* C8 *)

\* the exception raised where the fault is: the first exception of the chain
\* that carries a message of the parser (the exceptions of list.index and of
\* the interpreter are re-raised at once by the rule that met them)
FaultOf(e) ==
    LET chain == CauseChain(e)
        root == chain[Len(chain)]
    IN  IF root.kind \in {"NotInList", "MaxRecursionDepth"} /\ Len(chain) > 1
        THEN chain[Len(chain) - 1]
        ELSE root

\* C8: a compile-time error for a wrong field count or an unmatched bracket
\* names the rule whose definition holds the fault, with the kind of that
\* fault, also when the rule was reached through references.
C8_ErrorAttribution ==
    last.out.type = "ValueError"
      => /\ last.out.kind = FaultOf(last.out).kind
         /\ last.out.rule = FaultOf(last.out).rule

----------------------------------------------------------------------------
(* C9 *)

----------------------------------------------------------------------------
(* C10 *)

\* C10: every entry of the rule map of a stored rule lies inside the rule's
\* letters, and where the pattern is well formed the letters it spans are the
\* text substituted for the span: the alias, or the letters of the rule named.
C10_MapInsideLetters ==
    \A k \in DOMAIN rules :
        /\ \A i \in DOMAIN rules[k].rulemap :
               rules[k].rulemap[i].start + rules[k].rulemap[i].length
                   <= Len(rules[k].letters)
        /\ WellFormed(raw[k][2]) =>
               \A i \in DOMAIN rules[k].rulemap :
                   SubSeq(rules[k].letters, rules[k].rulemap[i].start + 1,
                          rules[k].rulemap[i].start + rules[k].rulemap[i].length)
                     = (IF Spans(raw[k][2])[i].alias # <<>>
                        THEN Spans(raw[k][2])[i].alias[1]
                        ELSE rules[rules[k].rulemap[i].name].letters)

----------------------------------------------------------------------------
(* StenoRuleParser (rules/parser.py) with RuleMap and StenoRule of         *)
(* rules/rules.py: the eager compiler.  It parses every entry of the       *)
(* source dict on construction, finds references with a regular            *)
(* expression, and turns key flags into trailing rule map entries.         *)

\* A field of a raw entry is a Python str or a Python list.
PyStr(chars) == [type |-> "str", val |-> chars]
PyList(items) == [type |-> "list", val |-> items]

LEFT_BRACKETS == {"(", "["}
RIGHT_BRACKETS == {")", "]"}

KEY_FLAGS ==
    [f \in {"*:??", "*:CF", "*:PR", "*:AB", "*:PS", "*:OB", "*:FS", "p:FS", "#:NM", "EU:NM", "d:NM"} |->
        CASE f = "*:??" -> "purpose unknown"
          [] f = "*:CF" -> "resolves conflict between words"
          [] f = "*:PR" -> "indicates a proper noun"
          [] f = "*:AB" -> "indicates an abbreviation"
          [] f = "*:PS" -> "indicates a prefix or suffix stroke"
          [] f = "*:OB" -> "indicates an obscenity"
          [] f = "*:FS" -> "indicates fingerspelling"
          [] f = "p:FS" -> "use to capitalize fingerspelled letters"
          [] f = "#:NM" -> "use to shift to number mode"
          [] f = "EU:NM" -> "use to invert the order of two digits"
          [] f = "d:NM" -> "use to double a digit"]

KEY_FLAG_SET == DOMAIN KEY_FLAGS

\* k.split(":", 1)[0] of a key flag
KeyOfFlag(f) ==
    CASE f \in {"*:??", "*:CF", "*:PR", "*:AB", "*:PS", "*:OB", "*:FS"} -> <<"*">>
      [] f = "p:FS" -> <<"p">>
      [] f = "#:NM" -> <<"#">>
      [] f = "EU:NM" -> <<"E", "U">>
      [] f = "d:NM" -> <<"d">>

\* the NamedTuple StenoRule of rules/rules.py
StenoRuleTuple(name, keys, letters, flags, desc, rulemap) ==
    [name |-> name, keys |-> keys, letters |-> letters, flags |-> flags,
     desc |-> desc, rulemap |-> rulemap]

\* RuleMap._MapItem
MapItem(rule, start, length) == [rule |-> rule, start |-> start, length |-> length]

\* _KEY_RULES[f]
KEY_RULES(f) == StenoRuleTuple(f, KeyOfFlag(f), <<>>, <<"KEY">>, KEY_FLAGS[f], <<>>)

\* list.remove(f): drops the first occurrence of f
RemoveFirst(flags, f) ==
    SubSeq(flags, 1, IndexOf(flags, f) - 1) \o SubSeq(flags, IndexOf(flags, f) + 1, Len(flags))

\* RuleMap.add_key_rules: the loop over the set key_flags, which is iterated
\* in the order `todo`
RECURSIVE AddKeyRulesLoop(_, _, _, _, _)
AddKeyRulesLoop(todo, rulemap, flags, start, remove_flags) ==
    IF todo = <<>> THEN [rulemap |-> rulemap, flags |-> flags]
    ELSE AddKeyRulesLoop(Tail(todo),
                         Append(rulemap, MapItem(KEY_RULES(Head(todo)), start, 0)),
                         IF remove_flags THEN RemoveFirst(flags, Head(todo)) ELSE flags,
                         start, remove_flags)

\* RuleMap.add_key_rules(flags, start, remove_flags); `order` lists
\* KEY_FLAG_SET in the order the interpreter iterates sets of these strings
add_key_rules(rulemap, flags, start, remove_flags, order) ==
    AddKeyRulesLoop(SelectSeq(order, LAMBDA f : f \in KEY_FLAG_SET \cap Range(flags)),
                    rulemap, flags, start, remove_flags)

\* SUBRULE_RX matches at i: a left bracket, then no bracket of either kind
\* up to a right bracket at MatchEnd(p, i)
NextBracket(p, i) ==
    {j \in (i + 1)..Len(p) :
        /\ p[j] \in LEFT_BRACKETS \cup RIGHT_BRACKETS
        /\ \A m \in (i + 1)..(j - 1) : p[m] \notin LEFT_BRACKETS \cup RIGHT_BRACKETS}
MatchEnd(p, i) == CHOOSE j \in NextBracket(p, i) : TRUE
MatchesAt(p, i) ==
    /\ p[i] \in LEFT_BRACKETS
    /\ NextBracket(p, i) # {}
    /\ p[MatchEnd(p, i)] \in RIGHT_BRACKETS

\* SUBRULE_RX.search(pattern): the leftmost match, <<>> for None
SUBRULE_RX_search(p) ==
    IF \E i \in DOMAIN p : MatchesAt(p, i)
    THEN LET i == CHOOSE i \in DOMAIN p :
                    MatchesAt(p, i) /\ \A j \in 1..(i - 1) : ~MatchesAt(p, j)
         IN <<[start |-> i - 1, group |-> SubSeq(p, i, MatchEnd(p, i))]>>
    ELSE <<>>

\* the positions at which old occurs in s
Occurrences(s, old) == {i \in 1..(Len(s) - Len(old) + 1) : SubSeq(s, i, i + Len(old) - 1) = old}

\* s.replace(old, new): every occurrence, from the left, without overlap
RECURSIVE Replace(_, _, _)
Replace(s, old, new) ==
    IF Occurrences(s, old) = {} THEN s
    ELSE LET i == CHOOSE i \in Occurrences(s, old) : \A j \in Occurrences(s, old) : i <= j
         IN SubSeq(s, 1, i - 1) \o new \o Replace(SubSeq(s, i + Len(old), Len(s)), old, new)

\* pattern.replace of one occurrence only
Replace_FirstOnly(s, old, new) ==
    LET i == CHOOSE i \in Occurrences(s, old) : \A j \in Occurrences(s, old) : i <= j
    IN SubSeq(s, 1, i - 1) \o new \o SubSeq(s, i + Len(old), Len(s))

\* the failures StenoRuleParser lets through to its caller
UnpackFieldsError == Outcome("ValueError", "UnpackFields", <<>>, <<>>, <<>>, <<>>, <<>>)
UnpackReferenceError == Outcome("ValueError", "UnpackReference", <<>>, <<>>, <<>>, <<>>, <<>>)
IllegalReferenceIn(rule_key, pattern) ==
    Outcome("KeyError", "IllegalReference", <<>>, <<rule_key>>, <<pattern>>, <<>>, <<>>)
NoSplitAttribute == Outcome("AttributeError", "split", <<>>, <<>>, <<>>, <<>>, <<>>)

\* the state of a StenoRuleParser under construction
StenoState(d, order) == [dict |-> d, order |-> order]

RECURSIVE StenoRuleParser_parse(_, _, _)
RECURSIVE StenoRuleParser_substitute_loop(_, _, _, _)

\* StenoRuleParser._substitute, the loop `while m:`.  The steps of its body
\* are written from the last to the first, each taking the locals that the
\* steps before it have assigned.
StenoRuleParser_substitute_loop(pattern, rulemap, st, depth) ==
    LET fail(s, o) == [st |-> s, out |-> o, letters |-> <<>>, rulemap |-> <<>>]
        \* rulemap.add(rule, m.start(), len(letters)); pattern = pattern.replace(...)
        substituted(start, rule_str, rule, letters, s) ==
            StenoRuleParser_substitute_loop(
                Replace(pattern, rule_str, letters),
                Append(rulemap, MapItem(rule, start, Len(letters))),
                s, depth)
        \* rule = self[rule_key] has been evaluated, with outcome p
        looked_up(start, rule_str, alias, rule_key, p) ==
            IF IsError(p.out) THEN fail(p.st, p.out)
            ELSE substituted(start, rule_str, p.st.dict[rule_key],
                             IF alias = <<>> THEN p.st.dict[rule_key].letters ELSE alias,
                             p.st)
        \* the reference has been taken apart into alias and rule_key
        referenced(start, rule_str, alias, rule_key) ==
            IF rule_key \notin DOMAIN st.dict /\ rule_key \notin DOMAIN src_dict
            THEN fail(st, IllegalReferenceIn(rule_key, pattern))
            ELSE looked_up(start, rule_str, alias, rule_key,
                           IF rule_key \in DOMAIN st.dict
                           THEN [st |-> st, out |-> Returned(<<>>)]
                           ELSE StenoRuleParser_parse(rule_key, st, depth))
        \* rule_str = m.group() without its brackets is inner
        unpacked(start, rule_str, inner, paren) ==
            IF ~paren /\ "|" \notin Range(inner) THEN fail(st, UnpackReferenceError)
            ELSE referenced(start, rule_str,
                            IF paren THEN <<>> ELSE SubSeq(inner, 1, IndexOf(inner, "|") - 1),
                            IF paren THEN inner
                            ELSE SubSeq(inner, IndexOf(inner, "|") + 1, Len(inner)))
        searched(m) ==
            IF m = <<>>
            THEN [st |-> st, out |-> Returned(<<>>), letters |-> pattern, rulemap |-> rulemap]
            ELSE unpacked(m[1].start, m[1].group,
                          SubSeq(m[1].group, 2, Len(m[1].group) - 1), m[1].group[1] = "(")
    IN  searched(SUBRULE_RX_search(pattern))

\* StenoRuleParser._substitute(pattern)
StenoRuleParser_substitute(pattern, st, depth) ==
    StenoRuleParser_substitute_loop(pattern, <<>>, st, depth)

\* The keys of the steno layout that the model uses, with the stroke
\* separator and the asterisk.
KEY_SEP == "/"
KEY_STAR == "*"
\* the hyphen of the text notation, which stands between the keys of the
\* left and of the right bank where no center key does
KEY_SPLIT == "-"

\* keys of the left bank, center keys, and keys of the right bank, which a
\* key sequence holds in lower case (as the keys of KEY_FLAGS are)
LEFT_KEYS == {"S", "T", "K"}
CENTER_KEYS == {KEY_STAR}
RIGHT_KEYS == {"t", "s"}
StenoAlphabet == LEFT_KEYS \cup CENTER_KEYS \cup RIGHT_KEYS \cup {KEY_SEP}

\* str.lower and str.upper on one key
lower(c) == CASE c = "T" -> "t" [] c = "S" -> "s" [] OTHER -> c
upper(c) == CASE c = "t" -> "T" [] c = "s" -> "S" [] OTHER -> c

FormatError == Outcome("FormatError", "UnrecognizedToken", <<>>, <<>>, <<>>, <<>>, <<>>)

\* the tokens of a text from the i-th on: `right` when a center key or the
\* hyphen of the stroke has been read, `split` when its hyphen has
RECURSIVE StenoKeys_parse_from(_, _, _, _, _)
StenoKeys_parse_from(text, i, right, split, keys) ==
    IF i > Len(text) THEN [out |-> Returned(<<>>), keys |-> keys]
    ELSE IF text[i] = KEY_SEP
    THEN StenoKeys_parse_from(text, i + 1, FALSE, FALSE, Append(keys, KEY_SEP))
    ELSE IF text[i] = KEY_SPLIT /\ ~split
    THEN StenoKeys_parse_from(text, i + 1, TRUE, TRUE, keys)
    ELSE IF text[i] \in CENTER_KEYS /\ ~split
    THEN StenoKeys_parse_from(text, i + 1, TRUE, FALSE, Append(keys, text[i]))
    ELSE IF ~right /\ text[i] \in LEFT_KEYS
    THEN StenoKeys_parse_from(text, i + 1, right, split, Append(keys, text[i]))
    ELSE IF right /\ lower(text[i]) \in RIGHT_KEYS
    THEN StenoKeys_parse_from(text, i + 1, right, split, Append(keys, lower(text[i])))
    ELSE [out |-> FormatError, keys |-> <<>>]

\* StenoKeys.parse(text): the key sequence of a text, stroke by stroke; the
\* keys after a center key or a hyphen are keys of the right bank; it fails
\* on a token that is no key where it stands
StenoKeys_parse(text) == StenoKeys_parse_from(text, 1, FALSE, FALSE, <<>>)

\* to_rtfcre that writes no hyphen
StenoKeys_to_rtfcre_NoSplit(keys) == [i \in DOMAIN keys |-> upper(keys[i])]

\* the keys of a sequence from the i-th on: `mid` when a center key or a
\* hyphen of the stroke has been written
RECURSIVE StenoKeys_to_rtfcre_from(_, _, _, _)
StenoKeys_to_rtfcre_from(keys, i, mid, text) ==
    IF i > Len(keys) THEN text
    ELSE IF keys[i] = KEY_SEP
    THEN StenoKeys_to_rtfcre_from(keys, i + 1, FALSE, Append(text, KEY_SEP))
    ELSE IF keys[i] \in CENTER_KEYS
    THEN StenoKeys_to_rtfcre_from(keys, i + 1, TRUE, Append(text, keys[i]))
    ELSE IF keys[i] \in RIGHT_KEYS
    THEN StenoKeys_to_rtfcre_from(keys, i + 1, TRUE,
             text \o (IF mid THEN <<>> ELSE <<KEY_SPLIT>>) \o <<upper(keys[i])>>)
    ELSE StenoKeys_to_rtfcre_from(keys, i + 1, mid, Append(text, keys[i]))

\* StenoKeys.to_rtfcre(): the text of a key sequence, with a hyphen before
\* the first key of the right bank of a stroke that has no center key
StenoKeys_to_rtfcre(keys) == StenoKeys_to_rtfcre_from(keys, 1, FALSE, <<>>)

\* StenoRuleParser._parse(k)
StenoRuleParser_parse(k, st, depth) ==
    LET raw_rule == src_dict[k]
        \* self[k] = StenoRule(keys, letters, flags, description, rulemap)
        finished(sub, keyed, parsed) ==
            IF IsError(parsed.out) THEN [st |-> sub.st, out |-> parsed.out]
            ELSE [st |-> [sub.st EXCEPT !.dict =
                            (k :> StenoRuleTuple(k, parsed.keys, sub.letters, keyed.flags,
                                                 raw_rule[4], keyed.rulemap)) @@ @],
                  out |-> Returned(<<>>)]
        \* letters, rulemap = self._substitute(pattern) has been evaluated
        substituted(flag_str, sub) ==
            IF IsError(sub.out) THEN [st |-> sub.st, out |-> sub.out]
            ELSE IF flag_str.val # <<>> /\ flag_str.type # "str"
            THEN [st |-> sub.st, out |-> NoSplitAttribute]
            ELSE finished(sub,
                          IF flag_str.val # <<>>
                          THEN add_key_rules(sub.rulemap, SplitFlags(flag_str.val),
                                             Len(sub.letters), TRUE, st.order)
                          ELSE [rulemap |-> sub.rulemap, flags |-> <<>>],
                          StenoKeys_parse(raw_rule[1]))
    IN  IF depth >= RecursionLimit THEN [st |-> st, out |-> MaxRecursionDepth]
        ELSE IF Len(raw_rule) # 4 THEN [st |-> st, out |-> UnpackFieldsError]
        ELSE substituted(raw_rule[3], StenoRuleParser_substitute(raw_rule[2], st, depth + 1))

\* StenoRuleParser.__init__: the loop over the keys of the source dict
RECURSIVE StenoRuleParser_init_loop(_, _)
StenoRuleParser_init_loop(i, st) ==
    LET parsed(p) == IF IsError(p.out) THEN p ELSE StenoRuleParser_init_loop(i + 1, p.st)
    IN  IF i > Len(RawOrder) THEN [st |-> st, out |-> Returned(<<>>)]
        ELSE IF RawOrder[i] \in DOMAIN st.dict THEN StenoRuleParser_init_loop(i + 1, st)
        ELSE parsed(StenoRuleParser_parse(RawOrder[i], st, 0))

\* StenoRuleParser(src_dict)
StenoRuleParser_init(order) == StenoRuleParser_init_loop(1, StenoState(EmptyRules, order))

----------------------------------------------------------------------------
(* Source dicts a StenoRuleParser is constructed on. *)

SquareRef(a, n) == <<"[">> \o a \o <<"|">> \o n \o <<"]">>

StenoPatterns ==
    {<<"a">>, Ref(NameB), Ref(NameC), Ref(NameZ),
     Ref(NameB) \o <<"e">> \o Ref(NameC),
     Ref(NameC) \o Ref(NameC),
     SquareRef(<<"u">>, NameC), SquareRef(<<>>, NameC),
     <<"[">> \o NameC \o <<"]">>,
     <<"(">> \o NameC \o <<"]">>}

StrkFlag == <<"S", "T", "R", "K">>
ProperFlag == <<"*", ":", "P", "R">>
FingerFlag == <<"*", ":", "F", "S">>

FlagFields ==
    {PyStr(<<>>), PyStr(StrkFlag), PyStr(ProperFlag),
     PyStr(ProperFlag \o <<"|">> \o StrkFlag),
     PyStr(StrkFlag \o <<"|">> \o ProperFlag \o <<"|">> \o StrkFlag),
     PyStr(ProperFlag \o <<"|">> \o ProperFlag),
     PyStr(FingerFlag \o <<"|">> \o ProperFlag),
     PyList(<<>>), PyList(<<"STRK", "*:PR">>)}

StenoDefinitions ==
    {<<<<"K">>, p, PyStr(<<>>), "d">> : p \in StenoPatterns}
    \cup {<<<<"K">>, p, f, "d">> : p \in {<<"a">>, Ref(NameC)}, f \in FlagFields}
    \cup {<<<<"K">>, <<"a">>>>, <<<<"?">>, <<"a">>, PyStr(<<>>), "d">>}

\* the orders in which the interpreter may iterate a set of key flags: each
\* two flags come in either order
KeyFlagOrders ==
    {<<"*:??", "*:CF", "*:PR", "*:AB", "*:PS", "*:OB", "*:FS", "p:FS", "#:NM", "EU:NM", "d:NM">>,
     <<"d:NM", "EU:NM", "#:NM", "p:FS", "*:FS", "*:OB", "*:PS", "*:AB", "*:PR", "*:CF", "*:??">>}

----------------------------------------------------------------------------
(* The state machine of a StenoRuleParser: it is constructed once.         *)

NoRuleParser ==
    /\ raw = <<>> /\ rules = <<>> /\ nextId = 0 /\ parseCount = <<>>
    /\ last = <<>> /\ errored = FALSE

StenoInit ==
    /\ NoRuleParser
    /\ NoMatcher
    /\ NoThreads
    /\ NoAnalyzer
    /\ NoStenoKeys
    /\ NoInverse
    /\ NoApps
    /\ src_dict \in [Names -> StenoDefinitions]
    /\ parser_dict = EmptyRules
    /\ built = <<>>

\* StenoRuleParser(src_dict) is evaluated; when it raises, no parser exists
Construct(order) ==
    /\ built = <<>>
    /\ LET constructed(r) ==
               /\ built' = <<r.out>>
               /\ parser_dict' = IF IsError(r.out) THEN EmptyRules ELSE r.st.dict
       IN constructed(StenoRuleParser_init(order))
    /\ UNCHANGED <<src_dict, parserVars, matcherVars, threadVars, analyzerVars, keysVars,
                 inverseVars, appVars>>

StenoNext == \E order \in KeyFlagOrders : Construct(order)

StenoSpec == StenoInit /\ [][StenoNext]_vars

----------------------------------------------------------------------------
(* C11.  Key flags are consumed on compilation.                            *)

\* the flag-list rule k was defined with
GivenFlags(k) == IF src_dict[k][3].val = <<>> THEN <<>> ELSE SplitFlags(src_dict[k][3].val)

\* the entries of a rule map that stand for key flags
KeyEntries(rulemap) == {i \in DOMAIN rulemap : rulemap[i].rule.flags = <<"KEY">>}

\* C11, first half: a key flag of the flag-list is in the rule map of the
\* finished rule exactly once, as the entry (key rule of the flag, length of
\* the letters, 0), and the key entries come after all entries of children.
C11_KeyEntries ==
    \A k \in DOMAIN parser_dict :
        LET r == parser_dict[k] IN
        /\ \A f \in KEY_FLAG_SET \cap Range(GivenFlags(k)) :
              Cardinality({i \in DOMAIN r.rulemap :
                              r.rulemap[i] = MapItem(KEY_RULES(f), Len(r.letters), 0)}) = 1
        /\ Cardinality(KeyEntries(r.rulemap)) = Cardinality(KEY_FLAG_SET \cap Range(GivenFlags(k)))
        /\ \A i \in KeyEntries(r.rulemap) : \A j \in DOMAIN r.rulemap \ KeyEntries(r.rulemap) : j < i

\* C11: every rule compiled with a flag-list has none of the key flags left
\* in its flags, has each key flag of the list as one zero-length entry at
\* the end of its rule map, and keeps all other flags of the list, unchanged;
\* also when the list repeats a key flag.
C11_KeyFlagsConsumed ==
    \A k \in DOMAIN parser_dict :
        /\ Range(parser_dict[k].flags) \cap KEY_FLAG_SET = {}
        /\ parser_dict[k].flags = SelectSeq(GivenFlags(k), LAMBDA f : f \notin KEY_FLAG_SET)
        /\ C11_KeyEntries

\* a flag-list that names some key flag more than once
RepeatsKeyFlag(flags) ==
    \E i, j \in DOMAIN flags : i < j /\ flags[i] = flags[j] /\ flags[i] \in KEY_FLAG_SET

\* C11 for the flag-lists that name no key flag twice
C11_NoRepeat ==
    \A k \in DOMAIN parser_dict :
        ~RepeatsKeyFlag(GivenFlags(k)) =>
            /\ Range(parser_dict[k].flags) \cap KEY_FLAG_SET = {}
            /\ parser_dict[k].flags = SelectSeq(GivenFlags(k), LAMBDA f : f \notin KEY_FLAG_SET)

----------------------------------------------------------------------------
(* C12.  The two shapes of a flag-list.                                    *)

\* the flag field of the raw definition of k, () when it has none
FlagField(k) == IF Len(raw[k]) >= 3 THEN raw[k][3] ELSE <<>>

\* the flag field of k is one str, holding flag names between pipes
IsPipeString(k) == "|" \in Range(FlagField(k))

\* rule j gives as a list the flags that rule k gives as a string
SameFlagsListed(k, j) ==
    /\ IsPipeString(k)
    /\ ~IsPipeString(j)
    /\ FlagField(j) = SplitFlags(FlagField(k))

C12_StenoFlagStr ==
    /\ \A k \in DOMAIN parser_dict :
          /\ src_dict[k][3].type = "str" \/ src_dict[k][3].val = <<>>
          /\ Range(parser_dict[k].flags) \subseteq Range(GivenFlags(k))
          /\ Range(GivenFlags(k)) \ KEY_FLAG_SET \subseteq Range(parser_dict[k].flags)
    /\ (built # <<>> /\ \E k \in Names : Len(src_dict[k]) = 4 /\ src_dict[k][3] = PyList(<<"STRK", "*:PR">>))
          => IsError(built[1])

----------------------------------------------------------------------------
(* LexerRuleMatcher (lexer/match.py): finished rules, filed by their flags *)
(* into a dict by name, a dict by keys, a dict by letters and the prefix   *)
(* index, and matched against the keys and letters the lexer has left.     *)

\* the NamedTuple StenoRule of rules.py: a value without a name
StenoRuleValue(keys, letters, flags, desc, rulemap) ==
    [keys |-> keys, letters |-> letters, flags |-> flags, desc |-> desc, rulemap |-> rulemap]

\* dict.get(key): <<value>>, or <<>> for None
DictGet(d, key) == IF key \in DOMAIN d THEN <<d[key]>> ELSE <<>>

\* d[key] = value
DictSet(d, key, value) == [x \in DOMAIN d \cup {key} |-> IF x = key THEN value ELSE d[x]]

\* str.startswith
StartsWith(s, prefix) == Len(prefix) <= Len(s) /\ SubSeq(s, 1, Len(prefix)) = prefix

\* sub in s, for strings
IsSubstring(sub, s) == \E i \in 1..(Len(s) - Len(sub) + 1) : SubSeq(s, i, i + Len(sub) - 1) = sub

\* str.lstrip(): without the leading whitespace
RECURSIVE lstrip(_)
lstrip(s) == IF s # <<>> /\ Head(s) = " " THEN lstrip(Tail(s)) ELSE s

\* str_prefix(s): the text before the first whitespace
str_prefix(s) == IF " " \in Range(s) THEN SubSeq(s, 1, IndexOf(s, " ") - 1) ELSE s

\* StenoKeys.first_stroke(): the keys up to and including the first
\* separator, all keys when there is none
first_stroke(keys) == IF KEY_SEP \in Range(keys) THEN SubSeq(keys, 1, IndexOf(keys, KEY_SEP)) ELSE keys

\* StenoKeys.startswith(prefix)
StenoKeys_startswith(keys, prefix) == StartsWith(keys, prefix)

UNORDERED_KEYS == {KEY_STAR}

\* OrderedKeyPrefixTree: the keys of an entry that take part in the order,
\* and those that do not
OrderedKeys(keys) == SelectSeq(keys, LAMBDA c : c \notin UNORDERED_KEYS)
UnorderedKeys(keys) == Range(keys) \cap UNORDERED_KEYS

\* OrderedKeyPrefixTree.add_entry(keys, letters, r)
add_entry(tree, keys, letters, r) == Append(tree, [keys |-> keys, letters |-> letters, rule |-> r])

\* an entry of the prefix index matches: its keys, less the unordered ones,
\* begin the ordered keys left, its unordered keys are among the keys left,
\* and its letters begin the letters left
EntryMatches(entry, keys, letters) ==
    /\ StartsWith(OrderedKeys(keys), OrderedKeys(entry.keys))
    /\ UnorderedKeys(entry.keys) \subseteq UnorderedKeys(keys)
    /\ StartsWith(letters, entry.letters)

\* OrderedKeyPrefixTree.prefix_match(keys, letters): a new list of the rules
\* of all matching entries
prefix_match(tree, keys, letters) ==
    LET hits == SelectSeq(tree, LAMBDA entry : EntryMatches(entry, keys, letters))
    IN [i \in DOMAIN hits |-> hits[i].rule]

\* the four lookup structures of a matcher
Indices(sp, st, w, t) == [special_dict |-> sp, stroke_dict |-> st, word_dict |-> w, prefix_tree |-> t]

\* the loop body of __init__ with SPEC tested after STRK and WORD
FileRule_SpecLast(ix, n, r) ==
    IF "STRK" \in r.flags THEN [ix EXCEPT !.stroke_dict = DictSet(@, r.keys, r)]
    ELSE IF "WORD" \in r.flags THEN [ix EXCEPT !.word_dict = DictSet(@, r.letters, r)]
    ELSE IF "SPEC" \in r.flags THEN [ix EXCEPT !.special_dict = DictSet(@, n, r)]
    ELSE [ix EXCEPT !.prefix_tree = add_entry(@, r.keys, r.letters, r)]

\* LexerRuleMatcher.__init__, the body of the loop over rules_dict.items()
FileRule(ix, n, r) ==
    IF "SPEC" \in r.flags THEN [ix EXCEPT !.special_dict = DictSet(@, n, r)]
    ELSE IF "STRK" \in r.flags THEN [ix EXCEPT !.stroke_dict = DictSet(@, r.keys, r)]
    ELSE IF "WORD" \in r.flags THEN [ix EXCEPT !.word_dict = DictSet(@, r.letters, r)]
    ELSE [ix EXCEPT !.prefix_tree = add_entry(@, r.keys, r.letters, r)]

RECURSIVE FileFrom(_, _, _)
FileFrom(i, ix, d) ==
    IF i > Len(RawOrder) THEN ix
    ELSE IF RawOrder[i] \in DOMAIN d
         THEN FileFrom(i + 1, FileRule(ix, RawOrder[i], d[RawOrder[i]]), d)
         ELSE FileFrom(i + 1, ix, d)

\* LexerRuleMatcher(rules_dict)
LexerRuleMatcher_init(d) == FileFrom(1, Indices(EmptyRules, EmptyRules, EmptyRules, <<>>), d)

\* _stroke_match that takes the rule whatever its letters
stroke_match_AnyLetters(ix, keys, letters) ==
    DictGet(ix.stroke_dict, first_stroke(keys))

\* LexerRuleMatcher._stroke_match; a rule, a tuple of five fields, is truthy
stroke_match(ix, keys, letters) ==
    LET r == DictGet(ix.stroke_dict, first_stroke(keys))
    IN IF r # <<>> /\ IsSubstring(r[1].letters, letters) THEN <<r[1]>> ELSE <<>>

\* _word_match that takes the rule whatever its keys
word_match_AnyKeys(ix, keys, letters) ==
    DictGet(ix.word_dict, str_prefix(lstrip(letters)))

\* LexerRuleMatcher._word_match
word_match(ix, keys, letters) ==
    LET r == DictGet(ix.word_dict, str_prefix(lstrip(letters)))
    IN IF r # <<>> /\ StenoKeys_startswith(keys, r[1].keys) THEN <<r[1]>> ELSE <<>>

\* match that looks into the stroke dict whatever is_full_stroke
match_AlwaysStroke(ix, keys, letters, is_full_stroke, is_full_word) ==
    [ix |-> ix,
     out |-> prefix_match(ix.prefix_tree, keys, letters)
                \o stroke_match(ix, keys, letters)
                \o (IF is_full_word THEN word_match(ix, keys, letters) ELSE <<>>)]

\* match that puts the stroke and word candidates first
match_PrefixLast(ix, keys, letters, is_full_stroke, is_full_word) ==
    [ix |-> ix,
     out |-> (IF is_full_stroke THEN stroke_match(ix, keys, letters) ELSE <<>>)
                \o (IF is_full_word THEN word_match(ix, keys, letters) ELSE <<>>)
                \o prefix_match(ix.prefix_tree, keys, letters)]

\* match on a prefix index that hands out a list of its own: the
\* candidates appended to the result are entries of the index afterwards
match_ExtendsIndex(ix, keys, letters, is_full_stroke, is_full_word) ==
    LET more == (IF is_full_stroke THEN stroke_match(ix, keys, letters) ELSE <<>>)
                   \o (IF is_full_word THEN word_match(ix, keys, letters) ELSE <<>>)
    IN [ix |-> [ix EXCEPT !.prefix_tree =
                    @ \o [i \in DOMAIN more |->
                            [keys |-> keys, letters |-> letters, rule |-> more[i]]]],
        out |-> prefix_match(ix.prefix_tree, keys, letters) \o more]

\* match that returns the prefix candidates alone
match_PrefixOnly(ix, keys, letters, is_full_stroke, is_full_word) ==
    [ix |-> ix, out |-> prefix_match(ix.prefix_tree, keys, letters)]

\* LexerRuleMatcher.match: the list prefix_match returns, extended in place
\* by the stroke and the word candidates; the indices are left as they are
match(ix, keys, letters, is_full_stroke, is_full_word) ==
    [ix |-> ix,
     out |-> prefix_match(ix.prefix_tree, keys, letters)
                \o (IF is_full_stroke THEN stroke_match(ix, keys, letters) ELSE <<>>)
                \o (IF is_full_word THEN word_match(ix, keys, letters) ELSE <<>>)]

\* LexerRuleMatcher.special_match(name)
special_match(ix, name) == DictGet(ix.special_dict, name)

----------------------------------------------------------------------------
(* Rule dicts a matcher is constructed from, and the arguments of match.   *)

Rule(keys, letters, flags) == StenoRuleValue(keys, letters, flags, "d", <<>>)

MatcherRules ==
    \* rules of the prefix index; one of them needs the asterisk
    {Rule(<<"S">>, <<"a">>, {}), Rule(<<"S", "*">>, <<"a">>, {"RARE"}),
    \* stroke rules, two of them on the same keys
     Rule(<<"S", "T">>, <<"b">>, {"STRK"}), Rule(<<"S", "T">>, <<"a">>, {"STRK"}),
     Rule(<<"S">>, <<"a">>, {"STRK", "WORD"}),
    \* word rules, on the same letters
     Rule(<<"S">>, <<"a">>, {"WORD"}), Rule(<<"S", "T">>, <<"a">>, {"WORD"}),
    \* a special rule that has another flag
     Rule(<<"S", "T">>, <<"a">>, {"SPEC", "STRK"})}

MatchKeys ==
    {<<"S">>, <<"S", "T">>, <<"S", "T", "*">>, <<"S", "T", "/", "K">>}

MatchLetters ==
    {<<"a">>, <<" ", "a", " ", "b">>}

----------------------------------------------------------------------------
(* The state machine of a matcher: it is constructed from a rule dict and  *)
(* then answers calls.                                                     *)

MatcherInit ==
    /\ NoRuleParser
    /\ NoStenoRuleParser
    /\ NoThreads
    /\ NoAnalyzer
    /\ NoStenoKeys
    /\ NoInverse
    /\ NoApps
    /\ rules_dict \in [Names -> MatcherRules]
    /\ special_dict = <<>> /\ stroke_dict = <<>> /\ word_dict = <<>> /\ prefix_tree = <<>>
    /\ matched = [op |-> "none", args |-> <<>>, out |-> <<>>]

\* the indices of the matcher, as one value
CurrentIndices == Indices(special_dict, stroke_dict, word_dict, prefix_tree)

SetIndices(ix) ==
    /\ special_dict' = ix.special_dict
    /\ stroke_dict' = ix.stroke_dict
    /\ word_dict' = ix.word_dict
    /\ prefix_tree' = ix.prefix_tree

\* LexerRuleMatcher(rules_dict) is evaluated
ConstructMatcher ==
    /\ matched.op = "none"
    /\ SetIndices(LexerRuleMatcher_init(rules_dict))
    /\ matched' = [op |-> "init", args |-> <<>>, out |-> <<>>]
    /\ UNCHANGED <<rules_dict, parserVars, stenoVars, threadVars, analyzerVars, keysVars,
                 inverseVars, appVars>>

\* a caller evaluates matcher.match(keys, letters, is_full_stroke, is_full_word)
CallMatch(keys, letters, is_full_stroke, is_full_word) ==
    /\ matched.op # "none"
    /\ LET r == match(CurrentIndices, keys, letters, is_full_stroke, is_full_word)
       IN /\ SetIndices(r.ix)
          /\ matched' = [op |-> "match",
                         args |-> <<keys, letters, is_full_stroke, is_full_word>>,
                         out |-> r.out]
    /\ UNCHANGED <<rules_dict, parserVars, stenoVars, threadVars, analyzerVars, keysVars,
                 inverseVars, appVars>>

\* a caller evaluates matcher.special_match(name)
CallSpecialMatch(name) ==
    /\ matched.op # "none"
    /\ matched' = [op |-> "special_match", args |-> <<name>>,
                   out |-> special_match(CurrentIndices, name)]
    /\ UNCHANGED <<rules_dict, indexVars, parserVars, stenoVars, threadVars, analyzerVars, keysVars,
                 inverseVars, appVars>>

MatcherNext ==
    \/ ConstructMatcher
    \/ \E keys \in MatchKeys, letters \in MatchLetters, is_full_stroke, is_full_word \in BOOLEAN :
          CallMatch(keys, letters, is_full_stroke, is_full_word)
    \/ \E name \in Names \cup {NameZ} : CallSpecialMatch(name)

MatcherSpec == MatcherInit /\ [][MatcherNext]_vars

----------------------------------------------------------------------------
(* C13.  Every rule is filed in exactly one lookup structure.              *)

Constructed == matched.op # "none"

\* the lookup structures that hold the rule named n
InSpecial(n) == n \in DOMAIN special_dict /\ special_dict[n] = rules_dict[n]
InStroke(n) ==
    rules_dict[n].keys \in DOMAIN stroke_dict /\ stroke_dict[rules_dict[n].keys] = rules_dict[n]
InWord(n) ==
    rules_dict[n].letters \in DOMAIN word_dict /\ word_dict[rules_dict[n].letters] = rules_dict[n]
InTree(n) == \E i \in DOMAIN prefix_tree : prefix_tree[i].rule = rules_dict[n]

HeldIn(n) ==
    {x \in {"special", "stroke", "word", "tree"} :
        \/ x = "special" /\ InSpecial(n)
        \/ x = "stroke" /\ InStroke(n)
        \/ x = "word" /\ InWord(n)
        \/ x = "tree" /\ InTree(n)}

\* the structure the flags of a rule choose: the first test that applies
FiledAs(r) ==
    IF "SPEC" \in r.flags THEN "special"
    ELSE IF "STRK" \in r.flags THEN "stroke"
    ELSE IF "WORD" \in r.flags THEN "word"
    ELSE "tree"

\* C13: once the matcher is constructed, every rule of the dict is held in
\* exactly one of the four lookup structures, the one its flags choose in the
\* order SPEC, STRK, WORD, prefix index; also when two STRK rules have the
\* same keys or two WORD rules the same letters.
C13_IndexFiling ==
    Constructed => \A n \in DOMAIN rules_dict : HeldIn(n) = {FiledAs(rules_dict[n])}

\* C13, the half that the code keeps: no rule is held in a structure other
\* than the one its flags choose
C13_NoOtherStructure ==
    Constructed => \A n \in DOMAIN rules_dict : HeldIn(n) \subseteq {FiledAs(rules_dict[n])}

----------------------------------------------------------------------------
(* C14 to C19.  What match and special_match return.                       *)

\* the last call was match(keys, letters, is_full_stroke, is_full_word)
MatchCalled == matched.op = "match"
ArgKeys == matched.args[1]
ArgLetters == matched.args[2]
ArgFullStroke == matched.args[3]
ArgFullWord == matched.args[4]

\* the places of a result that hold a rule of the given lookup structure
Places(out, structure) == {i \in DOMAIN out : FiledAs(out[i]) = structure}

\* C14: a rule flagged STRK and not SPEC is in the result of match only when
\* is_full_stroke is true: with is_full_stroke false the result holds no such
\* rule, even if its keys are the keys left and its letters match.
C14_StrokeOnlyAtBoundary ==
    (MatchCalled /\ ~ArgFullStroke) =>
        \A i \in DOMAIN matched.out :
            ~("STRK" \in matched.out[i].flags /\ "SPEC" \notin matched.out[i].flags)

\* match was called off a stroke boundary with the keys and letters of a
\* stroke rule of the matcher, and returned other candidates
C14_Witness ==
    /\ MatchCalled /\ ~ArgFullStroke
    /\ ArgKeys \in DOMAIN stroke_dict
    /\ stroke_dict[ArgKeys].letters = ArgLetters
    /\ StartsWith(ArgKeys, stroke_dict[ArgKeys].keys)
    /\ matched.out # <<>>

\* C15: match never returns a rule flagged SPEC, whatever its other flags and
\* whatever the arguments; special_match(name) returns the SPEC rule of that
\* name, and None for a name that is unknown or belongs to a rule without SPEC.
C15_SpecialIsolated ==
    /\ MatchCalled => \A i \in DOMAIN matched.out : "SPEC" \notin matched.out[i].flags
    /\ matched.op = "special_match" =>
          LET name == matched.args[1]
          IN IF name \in DOMAIN rules_dict /\ "SPEC" \in rules_dict[name].flags
             THEN matched.out = <<rules_dict[name]>>
             ELSE matched.out = <<>>

\* match was called at a stroke boundary with the keys and letters of a rule
\* flagged SPEC and STRK
C15_Witness ==
    /\ MatchCalled /\ ArgFullStroke
    /\ \E n \in DOMAIN rules_dict :
          /\ rules_dict[n].flags = {"SPEC", "STRK"}
          /\ rules_dict[n].keys = first_stroke(ArgKeys)
          /\ rules_dict[n].letters = ArgLetters
          /\ special_dict[n] = rules_dict[n]

\* the stroke map has a rule under exactly the first stroke of the keys
\* left, and the letters of that rule occur in the letters left
StrokeCandidate ==
    /\ first_stroke(ArgKeys) \in DOMAIN stroke_dict
    /\ IsSubstring(stroke_dict[first_stroke(ArgKeys)].letters, ArgLetters)

\* C16: a call of match with is_full_stroke true returns the stroke-map rule
\* keyed by exactly the first stroke of the keys left if and only if there is
\* such a rule and its letters occur in the letters left; it returns at most
\* one stroke rule, and none whose keys are a proper prefix of the first
\* stroke.
C16_StrokeMatch ==
    (MatchCalled /\ ArgFullStroke) =>
        /\ StrokeCandidate =>
              \E i \in DOMAIN matched.out : matched.out[i] = stroke_dict[first_stroke(ArgKeys)]
        /\ ~StrokeCandidate => Places(matched.out, "stroke") = {}
        /\ Cardinality(Places(matched.out, "stroke")) <= 1
        /\ \A i \in Places(matched.out, "stroke") : matched.out[i].keys = first_stroke(ArgKeys)

\* a stroke rule was returned whose letters occur in the letters left but do
\* not begin them, while the stroke map holds a rule on a proper prefix of the
\* first stroke
C16_Witness ==
    /\ MatchCalled /\ ArgFullStroke /\ StrokeCandidate
    /\ Places(matched.out, "stroke") # {}
    /\ ~StartsWith(ArgLetters, stroke_dict[first_stroke(ArgKeys)].letters)
    /\ \E k \in DOMAIN stroke_dict :
          k # first_stroke(ArgKeys) /\ StartsWith(first_stroke(ArgKeys), k)

\* the next word of the letters left: after the leading whitespace, up to the
\* next whitespace
NextWord(letters) ==
    LET rest == SubSeq(letters, CHOOSE i \in 1..(Len(letters) + 1) :
                                   /\ \A j \in 1..(i - 1) : letters[j] = " "
                                   /\ i <= Len(letters) => letters[i] # " ",
                       Len(letters))
    IN SubSeq(rest, 1, CHOOSE n \in 0..Len(rest) :
                           /\ \A j \in 1..n : rest[j] # " "
                           /\ n < Len(rest) => rest[n + 1] = " ")

\* the word map has a rule under the next word of the letters left, and the
\* keys left start with the keys of that rule
WordCandidate ==
    /\ NextWord(ArgLetters) \in DOMAIN word_dict
    /\ StartsWith(ArgKeys, word_dict[NextWord(ArgLetters)].keys)

KeysBegin(rule_keys, keys) ==
    /\ StartsWith(SelectSeq(keys, LAMBDA c : c # KEY_STAR),
                  SelectSeq(rule_keys, LAMBDA c : c # KEY_STAR))
    /\ KEY_STAR \in Range(rule_keys) => KEY_STAR \in Range(keys)

\* the entries of the prefix index that match the last call
MatchingEntries ==
    {j \in DOMAIN prefix_tree :
        /\ KeysBegin(prefix_tree[j].rule.keys, ArgKeys)
        /\ StartsWith(ArgLetters, prefix_tree[j].rule.letters)}

\* C18: whatever the boundary flags, match returns the rule of every entry of
\* the prefix index whose keys begin the keys left (the place of the asterisk
\* aside) and whose letters begin the letters left, returns no other rule of
\* the prefix index, and returns these rules together, before any candidate
\* of the stroke map or the word map.
C18_PrefixMatch ==
    MatchCalled =>
        /\ \A j \in MatchingEntries :
              \E i \in Places(matched.out, "tree") : matched.out[i] = prefix_tree[j].rule
        /\ \A i \in Places(matched.out, "tree") :
              \E j \in MatchingEntries : matched.out[i] = prefix_tree[j].rule
        /\ Cardinality(Places(matched.out, "tree")) = Cardinality(MatchingEntries)
        /\ \A i \in Places(matched.out, "tree") :
              \A k \in DOMAIN matched.out \ Places(matched.out, "tree") : i < k

\* two rules of the prefix index, one of them with the asterisk at another
\* place than in the keys left, were returned ahead of a word candidate
C18_Witness ==
    /\ MatchCalled
    /\ Cardinality(Places(matched.out, "tree")) = 2
    /\ \E i \in Places(matched.out, "tree") :
          /\ KEY_STAR \in Range(matched.out[i].keys)
          /\ ~StartsWith(ArgKeys, matched.out[i].keys)
    /\ Places(matched.out, "word") # {}

----------------------------------------------------------------------------
(* One RuleParser called from two threads.  The parser has no lock: the    *)
(* interpreter may switch threads between any two accesses to _rules, so   *)
(* a step of a thread holds at most one of them: the test `k in            *)
(* self._rules`, the read `self._rules[k]`, or the assignment              *)
(* `self._rules[k] = StenoRule(...)`.  What a thread does in between works *)
(* on its own frames and is part of the step.                              *)

Threads == {1, 2}

\* a frame of the call stack of a thread:
\*   "get"    in get(k), before `if k in self._rules`
\*   "hit"    in get(k), before `return self._rules[k]`
\*   "subst"  in _parse(k), in _substitute at the head of its while loop, or
\*            below the frame of the get it has called
Frame(pc, k, f, p_list, rulemap) ==
    [pc |-> pc, k |-> k, keys |-> f.keys, flags |-> f.flags, desc |-> f.desc,
     pattern |-> f.pattern, p_list |-> p_list, rulemap |-> rulemap]

GetFrame(k) ==
    Frame("get", k, [keys |-> "", flags |-> <<>>, desc |-> "", pattern |-> <<>>], <<>>, <<>>)

Idle == [req |-> "none", arg |-> <<>>, todo |-> <<>>, stack |-> <<>>, got |-> <<>>, out |-> <<>>]

Top(stack) == stack[Len(stack)]
Pop(stack) == SubSeq(stack, 1, Len(stack) - 1)

\* an exception leaves the frames of a thread from the top: every _parse
\* among them handles it in its except clauses
RECURSIVE Unwind(_, _)
Unwind(stack, e) ==
    IF stack = <<>> THEN e
    ELSE Unwind(Pop(stack), IF Top(stack).pc = "subst" THEN SubstituteError(Top(stack).k, e) ELSE e)

\* the request of a thread ends with an outcome
Finish(th, o) == [th EXCEPT !.stack = <<>>, !.todo = <<>>, !.out = <<o>>]

\* get returns v (<<rule>>, or <<>> for None) to the frame below, th being
\* the thread without the frame of that get
Deliver(th, v) ==
    IF th.stack = <<>>
    THEN \* the call came from the request itself
         IF th.req = "get" THEN Finish(th, Returned(v))
         ELSE IF th.todo = <<>> THEN Finish(th, Returned(th.got \o v))
         ELSE [th EXCEPT !.got = @ \o v, !.stack = <<GetFrame(Head(th.todo))>>,
                         !.todo = Tail(@)]
    ELSE \* the call came from _substitute, lines 121-129
         LET parent == Top(th.stack)
             s == IndexOf(parent.p_list, lb)
             e == IndexOf(parent.p_list, rb)
             reference == SubSeq(parent.p_list, s + 1, e - 1)
             letters == IF HasAlias(reference) THEN AliasOf(reference) ELSE v[1].letters
         IN  IF v = <<>>
             THEN Finish(th, Unwind(th.stack, IllegalReference(KeyOf(reference), parent.pattern)))
             ELSE IF e < s THEN Finish(th, NeverReturns)
             ELSE [th EXCEPT !.stack[Len(th.stack)] =
                      [parent EXCEPT !.p_list = SliceAssign(parent.p_list, s, e, letters),
                                     !.rulemap = AddItem(parent.rulemap,
                                                         RuleMapItem(KeyOf(reference), s - 1,
                                                                     Len(letters)))]]

\* the nested calls of _parse a thread is in
Depth(stack) == Cardinality({i \in DOMAIN stack : stack[i].pc = "subst"})

\* the requests a thread makes: get(k), or to_list()
Requests == {<<NameA>>, <<NameC>>, RawOrder}

\* thread t calls parser.get(k) or parser.to_list()
Begin(t, names) ==
    /\ threads[t].req = "none"
    /\ threads' = [threads EXCEPT ![t] =
                      [req |-> IF names = RawOrder THEN "to_list" ELSE "get",
                       arg |-> IF names = RawOrder THEN <<>> ELSE names,
                       todo |-> Tail(names), stack |-> <<GetFrame(Head(names))>>,
                       got |-> <<>>, out |-> <<>>]]
    /\ UNCHANGED <<parserVars, parsedBy, stenoVars, matcherVars, analyzerVars, keysVars,
                 inverseVars, appVars>>

Running(t) == threads[t].stack # <<>>

\* RuleParser.get, lines 58-62: the test of the store; on a miss the thread
\* goes on into _parse up to the call of _substitute
GetStep(t) ==
    /\ Running(t) /\ Top(threads[t].stack).pc = "get"
    /\ LET th == threads[t]
           k == Top(th.stack).k
           below == [th EXCEPT !.stack = Pop(@)]
           f == UnpackFields(k, raw[k])
       IN  IF k \in DOMAIN rules
           THEN /\ threads' = [threads EXCEPT ![t].stack[Len(th.stack)].pc = "hit"]
                /\ UNCHANGED <<parseCount, parsedBy>>
           ELSE IF k \notin DOMAIN raw
           THEN /\ threads' = [threads EXCEPT ![t] = Deliver(below, <<>>)]
                /\ UNCHANGED <<parseCount, parsedBy>>
           ELSE IF Depth(below.stack) >= RecursionLimit
           THEN /\ threads' = [threads EXCEPT ![t] =
                                  Finish(th, Unwind(below.stack, MaxRecursionDepth))]
                /\ UNCHANGED <<parseCount, parsedBy>>
           ELSE /\ parseCount' = [parseCount EXCEPT ![k] = @ + 1]
                /\ parsedBy' = [parsedBy EXCEPT ![t] = @ \cup {k}]
                /\ threads' = [threads EXCEPT ![t] =
                      IF IsError(f.out) THEN Finish(th, Unwind(below.stack, f.out))
                      ELSE [th EXCEPT !.stack[Len(th.stack)] =
                                Frame("subst", k, f, f.pattern, <<>>)]]
    /\ UNCHANGED <<raw, rules, nextId, last, errored, stenoVars, matcherVars, analyzerVars, keysVars,
                 inverseVars, appVars>>

\* RuleParser.get, line 59: return self._rules[k]
HitStep(t) ==
    /\ Running(t) /\ Top(threads[t].stack).pc = "hit"
    /\ threads' = [threads EXCEPT ![t] =
                      Deliver([threads[t] EXCEPT !.stack = Pop(@)],
                              <<rules[Top(threads[t].stack).k]>>)]
    /\ UNCHANGED <<parserVars, parsedBy, stenoVars, matcherVars, analyzerVars, keysVars,
                 inverseVars, appVars>>

\* RuleParser._substitute, lines 115-120: the head of the while loop.  With a
\* reference left, get is called for it; with none, _parse stores the
\* finished rule and returns it
SubstStep(t) ==
    /\ Running(t) /\ Top(threads[t].stack).pc = "subst"
    /\ LET th == threads[t]
           fr == Top(th.stack)
           below == [th EXCEPT !.stack = Pop(@)]
           s == IndexOf(fr.p_list, lb)
           e == IndexOf(fr.p_list, rb)
           rule == StenoRule(fr.k, fr.keys, fr.p_list, frozenset(fr.flags), fr.desc,
                             fr.rulemap, nextId)
       IN  IF lb \notin Range(fr.p_list)
           THEN /\ rules' = (fr.k :> rule) @@ rules
                /\ nextId' = nextId + 1
                /\ threads' = [threads EXCEPT ![t] = Deliver(below, <<rule>>)]
           ELSE IF rb \notin Range(fr.p_list)
           THEN /\ threads' = [threads EXCEPT ![t] = Finish(th, Unwind(th.stack, NotInList))]
                /\ UNCHANGED <<rules, nextId>>
           ELSE /\ threads' = [threads EXCEPT ![t].stack =
                                  Append(@, GetFrame(KeyOf(SubSeq(fr.p_list, s + 1, e - 1))))]
                /\ UNCHANGED <<rules, nextId>>
    /\ UNCHANGED <<raw, parseCount, last, errored, parsedBy, stenoVars, matcherVars, analyzerVars, keysVars,
                 inverseVars, appVars>>

\* raw rule sets of the threaded runs
ThreadDefinitions ==
    {<<"K", <<"a">>>>, <<"K", Ref(NameB)>>, <<"K", Ref(NameC)>>,
     <<"K", Ref(NameB) \o Ref(NameC)>>, <<"K", Ref(NameZ)>>, <<>>}

ThreadInit ==
    /\ NoStenoRuleParser
    /\ NoMatcher
    /\ NoAnalyzer
    /\ NoStenoKeys
    /\ NoInverse
    /\ NoApps
    /\ raw \in [Names -> ThreadDefinitions]
    /\ rules = EmptyRules
    /\ nextId = 0
    /\ parseCount = [k \in Names |-> 0]
    /\ last = [op |-> "init", arg |-> <<>>, out |-> Returned(<<>>)]
    /\ errored = FALSE
    /\ threads = [t \in Threads |-> Idle]
    /\ parsedBy = [t \in Threads |-> {}]

ThreadNext ==
    \E t \in Threads :
        \/ \E names \in Requests : Begin(t, names)
        \/ GetStep(t)
        \/ HitStep(t)
        \/ SubstStep(t)

ThreadSpec == ThreadInit /\ [][ThreadNext]_vars

\* A thread that runs alone does what the calls of Spec do.
AloneAsSequential ==
    (threads[2].req = "none" /\ threads[1].out # <<>>) =>
        LET st0 == ParserState(EmptyRules, 0, [k \in Names |-> 0])
            r == IF threads[1].req = "to_list" THEN ToList(st0)
                 ELSE Get(threads[1].arg[1], st0, 0)
        IN  /\ threads[1].out[1] = r.out
            /\ ~IsError(r.out) =>
                  /\ rules = r.st.rules
                  /\ nextId = r.st.nextId
                  /\ parseCount = r.st.parseCount

----------------------------------------------------------------------------
\* the names whose _parse a thread is in
InParse(t) == {threads[t].stack[i].k : i \in {j \in DOMAIN threads[t].stack :
                                                   threads[t].stack[j].pc = "subst"}}

\* thread t has got a rule back from get(k)
GotRule(t, k) ==
    /\ threads[t].req = "get" /\ threads[t].arg = <<k>>
    /\ threads[t].out # <<>>
    /\ threads[t].out[1].type = "return" /\ threads[t].out[1].value # <<>>

\* C20: when two requests (get / to_list) on one parser interleave, the
\* resolution of a rule is mutually exclusive: no name is in _parse in both
\* threads at once and no stored name was parsed by both, the store never
\* holds first one and then another rule object for a name, and a caller of
\* get receives the one object stored for the name.
C20_GuardedResolution ==
    [][/\ InParse(1)' \cap InParse(2)' = {}
       /\ \A k \in DOMAIN rules' : ~(k \in parsedBy'[1] /\ k \in parsedBy'[2])
       /\ \A k \in DOMAIN rules : k \in DOMAIN rules' /\ rules'[k] = rules[k]
       /\ \A t \in Threads : \A k \in Names :
              GotRule(t, k)' => threads'[t].out[1].value = <<rules'[k]>>]_vars

----------------------------------------------------------------------------
(* The lexer analyzer: the search that decomposes a translation (keys,     *)
(* letters) into rules of the matcher.  A window is the keys left, the     *)
(* offset `lpos` of the letters left in all the letters, and whether the   *)
(* keys left begin a stroke.                                               *)

\* str.find(sub): the 0-based offset of the first occurrence, 0 when the
\* candidate has none
Find(s, sub) ==
    IF IsSubstring(sub, s)
    THEN (CHOOSE i \in 1..(Len(s) - Len(sub) + 1) :
             /\ SubSeq(s, i, i + Len(sub) - 1) = sub
             /\ \A j \in 1..(i - 1) : SubSeq(s, j, j + Len(sub) - 1) # sub) - 1
    ELSE 0

\* the keys left past n keys in steno order and m unordered keys
RECURSIVE DropKeys(_, _, _)
DropKeys(keys, n, m) ==
    IF keys = <<>> \/ (n = 0 /\ m = 0) THEN keys
    ELSE IF Head(keys) \in UNORDERED_KEYS
    THEN IF m > 0 THEN DropKeys(Tail(keys), n, m - 1)
         ELSE <<Head(keys)>> \o DropKeys(Tail(keys), n, m)
    ELSE IF n > 0 THEN DropKeys(Tail(keys), n - 1, m)
         ELSE <<Head(keys)>> \o DropKeys(Tail(keys), n, m)

\* the window advanced past the keys of a candidate
Consume(keys, rkeys) ==
    DropKeys(keys, Len(OrderedKeys(rkeys)), Len(rkeys) - Len(OrderedKeys(rkeys)))

\* the synthetic rule that holds what no rule has matched
UnmatchedRule(keys, letters) == StenoRuleValue(keys, letters, {"BAD"}, "unmatched keys", <<>>)

is_unmatched(rule) == "BAD" \in rule.flags

\* an entry of the rule map of an analysis
Connection(rule, start, length) == [rule |-> rule, start |-> start, length |-> length]

\* a branch of the search, from some window to the end of the input, with
\* the counts it is ranked by
Branch(map, full, nkeys, nletters, nrare) ==
    [map |-> map, full |-> full, nkeys |-> nkeys, nletters |-> nletters, nrare |-> nrare]

\* the branch that stops at a window: what is left is one unmatched entry
Leftover(keys, all, lpos) ==
    IF keys = <<>> /\ lpos = Len(all) THEN Branch(<<>>, TRUE, 0, 0, 0)
    ELSE Branch(<<Connection(UnmatchedRule(keys, SubSeq(all, lpos + 1, Len(all))),
                             lpos, Len(all) - lpos)>>,
                FALSE, 0, 0, 0)

\* the branch that takes candidate r at offset start and goes on as sub
Extend(r, start, sub) ==
    Branch(<<Connection(r, start, Len(r.letters))>> \o sub.map, sub.full,
           Len(r.keys) + sub.nkeys, Len(r.letters) + sub.nletters,
           (IF "RARE" \in r.flags THEN 1 ELSE 0) + sub.nrare)

\* the ranking of branches: full coverage, then most keys, most letters,
\* fewest rare rules; the branch found first stays on a tie
Better(a, b) ==
    \/ a.full /\ ~b.full
    \/ /\ a.full = b.full
       /\ \/ a.nkeys > b.nkeys
          \/ a.nkeys = b.nkeys /\ a.nletters > b.nletters
          \/ a.nkeys = b.nkeys /\ a.nletters = b.nletters /\ a.nrare < b.nrare

Pick(best, found) == IF Better(found, best) THEN found ELSE best

\* one candidate tried at a window, for the record of the search
Tried(keys, lpos, at_stroke, r) ==
    [keys |-> keys, lpos |-> lpos, at_stroke |-> at_stroke, rule |-> r]

Min(a, b) == IF a <= b THEN a ELSE b

RECURSIVE Search(_, _, _, _, _)
RECURSIVE TryEach(_, _, _, _, _, _, _, _)

\* the candidates of a window are tried in order, each by a search of the
\* window past it; `best` is the best branch so far, `log` the tries so far
TryEach(ix, all, keys, lpos, at_stroke, cands, best, log) ==
    LET start(r) == lpos + Find(SubSeq(all, lpos + 1, Len(all)), r.letters)
        tried(r, at, sub) ==
            TryEach(ix, all, keys, lpos, at_stroke, Tail(cands),
                    Pick(best, Extend(r, at, sub.best)),
                    log \o <<Tried(keys, lpos, at_stroke, r)>> \o sub.log)
        try(r, at) ==
            tried(r, at, Search(ix, all, Consume(keys, r.keys),
                                Min(at + Len(r.letters), Len(all)),
                                r.keys[Len(r.keys)] = KEY_SEP))
    IN  IF cands = <<>> THEN [best |-> best, log |-> log]
        ELSE try(Head(cands), start(Head(cands)))

\* the search of one window: the matcher is asked for candidates; those not
\* flagged RARE are tried first, the RARE ones only when none of the others
\* has reached full coverage
Search(ix, all, keys, lpos, at_stroke) ==
    LET letters == SubSeq(all, lpos + 1, Len(all))
        at_word == lpos = 0 \/ all[lpos] = " " \/ (letters # <<>> /\ letters[1] = " ")
        gated(common, rare) ==
            IF common.best.full THEN common
            ELSE TryEach(ix, all, keys, lpos, at_stroke, rare, common.best, common.log)
        candidates(c) ==
            gated(TryEach(ix, all, keys, lpos, at_stroke,
                          SelectSeq(c, LAMBDA r : r.keys # <<>> /\ "RARE" \notin r.flags),
                          Leftover(keys, all, lpos), <<>>),
                  SelectSeq(c, LAMBDA r : r.keys # <<>> /\ "RARE" \in r.flags))
    IN  candidates(match(ix, keys, letters, at_stroke, at_word).out)

\* analyzer.query(keys, letters): the analysis, a rule over all the keys and
\* letters whose rule map is the best branch
query(ix, keys, letters) ==
    LET found(s) == [rule |-> StenoRuleValue(keys, letters, {}, "analysis", s.best.map),
                     log |-> s.log]
    IN found(Search(ix, letters, keys, 0, TRUE))

\* rules.py: RULE_SEP, the rule of the stroke separator
RULE_SEP == StenoRuleValue(<<KEY_SEP>>, <<>>, {"SEP"}, "Stroke separator", <<>>)

\* _analyze_words that leaves the separator after the last rule in
WithSeparators_NoPop(analyses, space_rule) ==
    IF analyses = <<>> THEN <<>>
    ELSE [i \in 1..(2 * Len(analyses)) |->
            IF i % 2 = 1 THEN analyses[(i + 1) \div 2] ELSE space_rule]

\* DiscordApplication._analyze_words, the loop `rules += [rule, self._space_rule]`
\* and the rules.pop() after it; <<>> when pop is called on an empty list
WithSeparators(analyses, space_rule) ==
    IF analyses = <<>> THEN <<>>
    ELSE [i \in 1..(2 * Len(analyses) - 1) |->
            IF i % 2 = 1 THEN analyses[(i + 1) \div 2] ELSE space_rule]

\* DiscordApplication._join_rules: the rules become the entries of one rule,
\* each at the offset of its letters
RECURSIVE join_rules_from(_, _, _)
join_rules_from(rs, i, joined) ==
    IF i > Len(rs) THEN joined
    ELSE join_rules_from(rs, i + 1,
            StenoRuleValue(joined.keys \o rs[i].keys,
                           joined.letters \o rs[i].letters,
                           joined.flags, joined.desc,
                           Append(joined.rulemap,
                                  Connection(rs[i], Len(joined.letters),
                                             Len(rs[i].letters)))))

\* _join_rules that adds every connection at the offset 0
join_rules_NoOffset(rs) ==
    LET joined == join_rules_from(rs, 1, StenoRuleValue(<<>>, <<>>, {}, "Compound analysis.", <<>>))
    IN StenoRuleValue(joined.keys, joined.letters, joined.flags, joined.desc,
                      [i \in DOMAIN joined.rulemap |->
                          Connection(joined.rulemap[i].rule, 0, joined.rulemap[i].length)])

join_rules(rs) ==
    join_rules_from(rs, 1, StenoRuleValue(<<>>, <<>>, {}, "Compound analysis.", <<>>))

\* analyzer.compound_query(seq): the analyses of the translations, joined
\* with the separator rule between them
compound_query(ix, seq) ==
    join_rules(WithSeparators([i \in DOMAIN seq |-> query(ix, seq[i][1], seq[i][2]).rule],
                              RULE_SEP))

\* IndexCompiler.add that files the translation under the first name only
IndexCompiler_add_FirstName(ind, keys, letters, names) ==
    IF names = <<>> THEN ind
    ELSE DictSet(ind, Head(names),
                 DictSet(IF Head(names) \in DOMAIN ind THEN ind[Head(names)] ELSE <<>>,
                         keys, letters))

\* IndexCompiler.add that keeps the letters a key already has under a name
RECURSIVE IndexCompiler_add_KeepsFirst(_, _, _, _)
IndexCompiler_add_KeepsFirst(ind, keys, letters, names) ==
    IF names = <<>> THEN ind
    ELSE LET old == IF Head(names) \in DOMAIN ind THEN ind[Head(names)] ELSE <<>>
         IN IndexCompiler_add_KeepsFirst(
                DictSet(ind, Head(names),
                        IF keys \in DOMAIN old THEN old ELSE DictSet(old, keys, letters)),
                keys, letters, Tail(names))

\* IndexCompiler.add(keys, letters, names): self._index is a defaultdict(dict)
RECURSIVE IndexCompiler_add(_, _, _, _)
IndexCompiler_add(ind, keys, letters, names) ==
    IF names = <<>> THEN ind
    ELSE IndexCompiler_add(
             DictSet(ind, Head(names),
                     DictSet(IF Head(names) \in DOMAIN ind THEN ind[Head(names)] ELSE <<>>,
                             keys, letters)),
             keys, letters, Tail(names))

\* the name a rule of the matcher has in the rule dict
NameOfRule(d, r) == CHOOSE n \in DOMAIN d : d[n] = r

\* the names of the rules used in an analysis, in the order of its rule map
NamesUsed(d, rule) ==
    LET used == SelectSeq(rule.rulemap, LAMBDA item : ~is_unmatched(item.rule))
    IN [i \in DOMAIN used |-> NameOfRule(d, used[i].rule)]

\* analyzer.compile_index(translations): every translation is analyzed and
\* added to the index under the names of the rules its analysis uses
RECURSIVE compile_index_from(_, _, _, _, _)
compile_index_from(d, ix, translations, i, ind) ==
    IF i > Len(translations) THEN ind
    ELSE compile_index_from(d, ix, translations, i + 1,
             IndexCompiler_add(ind, translations[i][1], translations[i][2],
                               NamesUsed(d, query(ix, translations[i][1],
                                                  translations[i][2]).rule)))

compile_index(d, ix, translations) == compile_index_from(d, ix, translations, 1, <<>>)

----------------------------------------------------------------------------
(* Rule dicts and translations the analyzer is called on.                  *)

AnalyzerRules ==
    \* rules of the prefix index, one of them for the separator
    {Rule(<<"S">>, <<"a">>, {}), Rule(<<"T">>, <<"b">>, {}),
     Rule(<<KEY_SEP>>, <<>>, {"SEP"}),
    \* rare rules: one needs the asterisk, two explain the same keys
     Rule(<<"S", "*">>, <<"a">>, {"RARE"}), Rule(<<"S">>, <<"a">>, {"RARE"}),
     Rule(<<"S", "T">>, <<"a", "b">>, {"RARE"}),
    \* a stroke rule and a word rule
     Rule(<<"S", "T">>, <<"b">>, {"STRK"}), Rule(<<"S", "T">>, <<"a", "b">>, {"WORD"})}

AnalyzerKeys == {<<"S">>, <<"S", "T">>, <<"S", "*">>, <<"S", KEY_SEP, "T">>}

AnalyzerLetters == {<<"a">>, <<"a", "b">>, <<"a", " ", "b">>}

Translations == AnalyzerKeys \X AnalyzerLetters

\* the lists of translations of a compound query or an index
TranslationLists ==
    {<<t>> : t \in Translations}
    \cup {<<t, u>> : t \in {<<<<"S">>, <<"a">>>>, <<<<"S", "T">>, <<"a">>>>},
                     u \in {<<<<"S", "T">>, <<"a", "b">>>>, <<<<"S">>, <<"b">>>>,
                            <<<<"T">>, <<"b">>>>}}
    \cup {<<<<<<"S">>, <<"a">>>>, <<<<"T">>, <<"b">>>>, <<<<"S", "T">>, <<"a", "b">>>>>>}

----------------------------------------------------------------------------
(* The state machine of an analyzer: its matcher is constructed from a     *)
(* rule dict whose rules are distinct objects, then it answers calls.      *)

AnalyzerInit ==
    /\ NoRuleParser
    /\ NoStenoRuleParser
    /\ NoThreads
    /\ rules_dict \in {d \in [Names -> AnalyzerRules] :
                          \A m, n \in Names : m # n => d[m] # d[n]}
    /\ special_dict = <<>> /\ stroke_dict = <<>> /\ word_dict = <<>> /\ prefix_tree = <<>>
    /\ matched = [op |-> "none", args |-> <<>>, out |-> <<>>]
    /\ analysis = [op |-> "none", args |-> <<>>, out |-> <<>>, log |-> <<>>]
    /\ NoStenoKeys
    /\ NoInverse
    /\ NoApps

\* a caller evaluates analyzer.query(keys, letters)
CallQuery(keys, letters) ==
    /\ matched.op # "none"
    /\ LET answered(a) ==
               analysis' = [op |-> "query", args |-> <<keys, letters>>,
                            out |-> <<a.rule>>, log |-> a.log]
       IN answered(query(CurrentIndices, keys, letters))
    /\ UNCHANGED <<matcherVars, parserVars, stenoVars, threadVars, keysVars, inverseVars, appVars>>

\* a caller evaluates analyzer.compound_query(seq)
CallCompoundQuery(seq) ==
    /\ matched.op # "none"
    /\ analysis' = [op |-> "compound_query", args |-> <<seq>>,
                    out |-> <<compound_query(CurrentIndices, seq)>>, log |-> <<>>]
    /\ UNCHANGED <<matcherVars, parserVars, stenoVars, threadVars, keysVars, inverseVars, appVars>>

\* a caller evaluates analyzer.compile_index(translations), which returns
\* the dict of a new IndexCompiler
CallCompileIndex(translations) ==
    /\ matched.op # "none"
    /\ analysis' = [op |-> "compile_index", args |-> <<translations>>,
                    out |-> <<compile_index(rules_dict, CurrentIndices, translations)>>,
                    log |-> <<>>]
    /\ UNCHANGED <<matcherVars, parserVars, stenoVars, threadVars, keysVars, inverseVars, appVars>>

AnalyzerNext ==
    \/ ConstructMatcher
    \/ \E t \in Translations : CallQuery(t[1], t[2])
    \/ \E seq \in TranslationLists : CallCompoundQuery(seq)
    \/ \E translations \in TranslationLists : CallCompileIndex(translations)

AnalyzerSpec == AnalyzerInit /\ [][AnalyzerNext]_vars

----------------------------------------------------------------------------
(* C21.  The analysis of a translation drops no key.                       *)

Queried == analysis.op = "query"
QueryKeys == analysis.args[1]
QueryLetters == analysis.args[2]
QueryMap == analysis.out[1].rulemap

\* the keys of the entries of a rule map, one after the other
RECURSIVE SpanKeys(_)
SpanKeys(map) == IF map = <<>> THEN <<>> ELSE Head(map).rule.keys \o SpanKeys(Tail(map))

\* two key sequences hold the same keys: the same keys in steno order and
\* as many unordered keys
SameKeys(a, b) ==
    /\ OrderedKeys(a) = OrderedKeys(b)
    /\ Len(a) = Len(b)

\* some chain of candidates of the matcher leads from a window to the end of
\* both the keys and the letters
RECURSIVE FullFrom(_, _, _, _, _)
FullFrom(ix, all, keys, lpos, at_stroke) ==
    \/ keys = <<>> /\ lpos = Len(all)
    \/ LET letters == SubSeq(all, lpos + 1, Len(all))
           c == match(ix, keys, letters, at_stroke,
                      lpos = 0 \/ all[lpos] = " " \/ (letters # <<>> /\ letters[1] = " ")).out
       IN \E i \in DOMAIN c :
             /\ c[i].keys # <<>>
             /\ FullFrom(ix, all, Consume(keys, c[i].keys),
                         Min(lpos + Find(letters, c[i].letters) + Len(c[i].letters), Len(all)),
                         c[i].keys[Len(c[i].keys)] = KEY_SEP)

\* C21: the analyzer always returns a rule map; the keys of its entries,
\* matched and unmatched, are the keys of the input, none twice and none
\* left out; what no rule has matched is in an entry flagged unmatched; and
\* when some decomposition into rules covers the input, no entry is
\* unmatched.
C21_NoDrop ==
    Queried =>
        /\ analysis.out # <<>>
        /\ SameKeys(SpanKeys(QueryMap), QueryKeys)
        /\ \A i \in DOMAIN QueryMap :
              \/ is_unmatched(QueryMap[i].rule)
              \/ QueryMap[i].rule \in Range(rules_dict)
        /\ FullFrom(CurrentIndices, QueryLetters, QueryKeys, 0, TRUE)
              => \A i \in DOMAIN QueryMap : ~is_unmatched(QueryMap[i].rule)

\* an analysis with an entry of a rule and an entry for what is left
C21_Witness ==
    /\ Queried
    /\ \E i, j \in DOMAIN QueryMap :
          /\ ~is_unmatched(QueryMap[i].rule)
          /\ is_unmatched(QueryMap[j].rule)
          /\ QueryMap[j].rule.keys # <<>>

----------------------------------------------------------------------------
(* C22.  RARE candidates come last.                                        *)

\* a window of the search, and the window past a rule
Window(keys, lpos, at_stroke) == [keys |-> keys, lpos |-> lpos, at_stroke |-> at_stroke]

LettersAt(all, w) == SubSeq(all, w.lpos + 1, Len(all))

Past(all, w, r) ==
    Window(Consume(w.keys, r.keys),
           Min(w.lpos + Find(LettersAt(all, w), r.letters) + Len(r.letters), Len(all)),
           r.keys[Len(r.keys)] = KEY_SEP)

\* the letters left at a window begin a word
AtWord(all, w) ==
    \/ w.lpos = 0
    \/ all[w.lpos] = " "
    \/ LettersAt(all, w) # <<>> /\ LettersAt(all, w)[1] = " "

\* the rules of the lookup structures that fit a window, read from the
\* structures themselves
Fitting(ix, all, w) ==
    {e.rule : e \in {e \in Range(ix.prefix_tree) : EntryMatches(e, w.keys, LettersAt(all, w))}}
    \cup {r \in Range(ix.stroke_dict) :
            /\ w.at_stroke
            /\ DictGet(ix.stroke_dict, first_stroke(w.keys)) = <<r>>
            /\ IsSubstring(r.letters, LettersAt(all, w))}
    \cup {r \in Range(ix.word_dict) :
            /\ AtWord(all, w)
            /\ DictGet(ix.word_dict, str_prefix(lstrip(LettersAt(all, w)))) = <<r>>
            /\ StartsWith(w.keys, r.keys)}

Usable(ix, all, w) == {r \in Fitting(ix, all, w) : r.keys # <<>>}

\* some chain of fitting rules, none of them in `avoid`, covers all that is
\* left at a window
RECURSIVE Covers(_, _, _, _)
Covers(ix, all, w, avoid) ==
    \/ w.keys = <<>> /\ w.lpos = Len(all)
    \/ \E r \in Usable(ix, all, w) \ avoid : Covers(ix, all, Past(all, w, r), avoid)

\* some chain that begins with a rule not flagged RARE covers all that is
\* left at a window
CoversWithoutRareFirst(ix, all, w) ==
    \E r \in Usable(ix, all, w) :
        "RARE" \notin r.flags /\ Covers(ix, all, Past(all, w, r), {})

\* the windows at which the entries of a returned rule map were taken
RECURSIVE WindowsOf(_, _, _)
WindowsOf(all, map, w) ==
    IF map = <<>> THEN <<>>
    ELSE <<w>> \o (IF is_unmatched(Head(map).rule) THEN <<>>
                   ELSE WindowsOf(all, Tail(map), Past(all, w, Head(map).rule)))

QueryWindows == WindowsOf(QueryLetters, QueryMap, Window(QueryKeys, 0, TRUE))

TriedWindow(t) == Window(t.keys, t.lpos, t.at_stroke)

\* a RARE candidate is tried at a window only after every candidate there
\* that is not RARE has been tried, and none of those has led to full
\* coverage
RareTriedLast ==
    \A i \in DOMAIN analysis.log :
        "RARE" \in analysis.log[i].rule.flags =>
            /\ \A c \in Usable(CurrentIndices, QueryLetters, TriedWindow(analysis.log[i])) :
                  "RARE" \notin c.flags =>
                      \E j \in 1..(i - 1) :
                          /\ TriedWindow(analysis.log[j]) = TriedWindow(analysis.log[i])
                          /\ analysis.log[j].rule = c
            /\ ~CoversWithoutRareFirst(CurrentIndices, QueryLetters,
                                       TriedWindow(analysis.log[i]))

----------------------------------------------------------------------------
(* C23.  The index holds the translations it was compiled from.            *)

Indexed == analysis.op = "compile_index"
IndexedTranslations == analysis.args[1]
IndexOut == analysis.out[1]

\* the (keys, letters) pairs found under any rule name of an index
PairsOf(ind) ==
    UNION {{<<k, ind[n][k]>> : k \in DOMAIN ind[n]} : n \in DOMAIN ind}

\* the names of the rules the analysis of a translation uses
NamesOf(t) == Range(NamesUsed(rules_dict, query(CurrentIndices, t[1], t[2]).rule))

\* a translation is recorded under a rule name
RecordedUnder(ind, t, n) ==
    n \in DOMAIN ind /\ t[1] \in DOMAIN ind[n] /\ ind[n][t[1]] = t[2]

DistinctKeys(translations) ==
    \A i, j \in DOMAIN translations :
        translations[i][1] = translations[j][1] => translations[i] = translations[j]

----------------------------------------------------------------------------
(* C24.  A compound analysis alternates analyses and separators.           *)

Compounded == analysis.op = "compound_query"
CompoundSeq == analysis.args[1]
CompoundMap == analysis.out[1].rulemap

is_separator(rule) == "SEP" \in rule.flags

----------------------------------------------------------------------------
(* C25.  Rules flagged SEP.  A RuleParser on raw definitions that carry    *)
(* the flag.                                                               *)

SepDefinitions ==
    \* the separator as the rule files define it, and plain rules
    {<<KEY_SEP, <<>>, <<"SEP">>>>, <<"K", <<"a">>>>, <<"K", <<"b">>, <<>>, "d">>}
    \* definitions flagged SEP with letters, with a child, with a child of
    \* no letters
    \cup {<<KEY_SEP, <<"a">>, <<"SEP">>>>, <<KEY_SEP, Ref(NameC), <<"SEP">>>>,
          <<KEY_SEP, AliasRef(<<>>, NameC), <<"SEP">>>>}

SepInit ==
    /\ NoStenoRuleParser
    /\ NoMatcher
    /\ NoThreads
    /\ NoAnalyzer
    /\ NoStenoKeys
    /\ NoInverse
    /\ NoApps
    /\ raw \in [Names -> SepDefinitions]
    /\ rules = EmptyRules
    /\ nextId = 0
    /\ parseCount = [k \in Names |-> 0]
    /\ last = [op |-> "init", arg |-> <<>>, out |-> Returned(<<>>)]
    /\ errored = FALSE

SepSpec == SepInit /\ [][Next]_vars

\* C25: the separator constant and every stored rule flagged SEP have no
\* letters and no entry in the rule map.
C25_Separator ==
    /\ is_separator(RULE_SEP) /\ RULE_SEP.letters = <<>> /\ RULE_SEP.rulemap = <<>>
    /\ \A k \in DOMAIN rules :
          is_separator(rules[k]) => rules[k].letters = <<>> /\ rules[k].rulemap = <<>>

----------------------------------------------------------------------------
(* C26.  Key sequences and their text.  A caller parses a text and writes  *)
(* the key sequence back.                                                  *)

MaxKeyLen == 3

\* the tokens of the texts: keys, the hyphen, the separator, and a token
\* that is no key
KeyTokens == {"S", "T", "K", KEY_STAR, KEY_SPLIT, KEY_SEP, "?"}

KeyTexts == UNION {[1..n -> KeyTokens] : n \in 0..MaxKeyLen}

KeysInit ==
    /\ NoRuleParser
    /\ NoStenoRuleParser
    /\ NoMatcher
    /\ NoThreads
    /\ NoAnalyzer
    /\ NoInverse
    /\ NoApps
    /\ stenokeys = [op |-> "none", text |-> <<>>, keys |-> <<>>,
                    out |-> Returned(<<>>), rtfcre |-> <<>>]

\* a caller evaluates StenoKeys.parse(text)
CallParse(text) ==
    /\ LET parsed(p) ==
               stenokeys' = [op |-> "parse", text |-> text, keys |-> p.keys,
                             out |-> p.out, rtfcre |-> <<>>]
       IN parsed(StenoKeys_parse(text))
    /\ UNCHANGED <<parserVars, stenoVars, matcherVars, threadVars, analyzerVars, inverseVars, appVars>>

\* a caller evaluates keys.to_rtfcre() on the key sequence parse has returned
CallToRtfcre ==
    /\ stenokeys.op = "parse"
    /\ ~IsError(stenokeys.out)
    /\ stenokeys' = [stenokeys EXCEPT !.op = "to_rtfcre",
                                      !.rtfcre = StenoKeys_to_rtfcre(stenokeys.keys)]
    /\ UNCHANGED <<parserVars, stenoVars, matcherVars, threadVars, analyzerVars, inverseVars, appVars>>

KeysNext ==
    \/ \E text \in KeyTexts : CallParse(text)
    \/ CallToRtfcre

KeysSpec == KeysInit /\ [][KeysNext]_vars

\* the index of the first token of the stroke the i-th token is in
RECURSIVE StrokeStart(_, _)
StrokeStart(text, i) ==
    IF i = 1 \/ text[i - 1] = KEY_SEP THEN i ELSE StrokeStart(text, i - 1)

\* the tokens of the stroke before the i-th token
Before(text, i) == {text[j] : j \in StrokeStart(text, i)..(i - 1)}

\* a text is well formed: its tokens are keys, hyphens and separators; a
\* stroke has at most one hyphen and no center key after it; the keys after
\* a center key or a hyphen are keys of the right bank, the others of the left
WellFormedKeys(text) ==
    \A i \in DOMAIN text :
        \/ text[i] = KEY_SEP
        \/ text[i] \in {KEY_SPLIT, KEY_STAR} /\ KEY_SPLIT \notin Before(text, i)
        \/ text[i] \in {"S", "T", "K"} /\ Before(text, i) \cap {KEY_SPLIT, KEY_STAR} = {}
        \/ text[i] \in {"S", "T"} /\ Before(text, i) \cap {KEY_SPLIT, KEY_STAR} # {}

\* a hyphen says nothing: a center key stands before it in its stroke, or no
\* key follows it there
Redundant(text, i) ==
    /\ text[i] = KEY_SPLIT
    /\ \/ KEY_STAR \in Before(text, i)
       \/ i = Len(text)
       \/ text[i + 1] = KEY_SEP

\* the canonical form of a text: the text without the hyphens that say nothing
RECURSIVE CanonicalFrom(_, _)
CanonicalFrom(text, i) ==
    IF i > Len(text) THEN <<>>
    ELSE (IF Redundant(text, i) THEN <<>> ELSE <<text[i]>>) \o CanonicalFrom(text, i + 1)

Canonical(text) == CanonicalFrom(text, 1)

\* C26: a well-formed text is parsed into a key sequence; the text written
\* back from the key sequence of a well-formed text is the canonical form of
\* that text; the text written back from any key sequence parse has returned
\* parses into that key sequence again; and the parse of a text with a token
\* that is no key fails with a format error and returns no sequence.
C26_RoundTrip ==
    /\ stenokeys.op = "parse" =>
          /\ WellFormedKeys(stenokeys.text) => ~IsError(stenokeys.out)
          /\ "?" \in Range(stenokeys.text) =>
                stenokeys.out = FormatError /\ stenokeys.keys = <<>>
    /\ stenokeys.op = "to_rtfcre" =>
          /\ WellFormedKeys(stenokeys.text) => stenokeys.rtfcre = Canonical(stenokeys.text)
          /\ StenoKeys_parse(stenokeys.rtfcre) =
                [out |-> Returned(<<>>), keys |-> stenokeys.keys]

\* a text with a key of the right bank after a hyphen that says nothing,
\* written back without the hyphen
C26_Witness ==
    /\ stenokeys.op = "to_rtfcre"
    /\ WellFormedKeys(stenokeys.text)
    /\ \E i \in DOMAIN stenokeys.text : Redundant(stenokeys.text, i)
    /\ Range(stenokeys.keys) \cap RIGHT_KEYS # {}
    /\ stenokeys.rtfcre # stenokeys.text
    /\ stenokeys.rtfcre = Canonical(stenokeys.text)

----------------------------------------------------------------------------
(* C27.  The rule map StenoRuleParser._substitute records.                 *)

\* position of the first right bracket after position i
StenoClosingOf(p, i) ==
    CHOOSE j \in (i + 1)..Len(p) :
        p[j] \in RIGHT_BRACKETS /\ \A m \in (i + 1)..(j - 1) : p[m] \notin RIGHT_BRACKETS

StenoBrackets(p) == SelectSeq(p, LAMBDA c : c \in LEFT_BRACKETS \cup RIGHT_BRACKETS)

\* the references of a pattern are well formed: every bracket is closed by
\* the bracket of its kind before the next opens, and a reference in square
\* brackets gives its letters before a bar
StenoWellFormed(p) ==
    /\ Len(StenoBrackets(p)) % 2 = 0
    /\ \A i \in DOMAIN StenoBrackets(p) :
          StenoBrackets(p)[i] \in (IF i % 2 = 1 THEN LEFT_BRACKETS ELSE RIGHT_BRACKETS)
    /\ \A i \in DOMAIN p :
          /\ p[i] = "(" => p[StenoClosingOf(p, i)] = ")"
          /\ p[i] = "[" =>
                /\ p[StenoClosingOf(p, i)] = "]"
                /\ "|" \in Range(SubSeq(p, i + 1, StenoClosingOf(p, i) - 1))

\* number of bracketed references of a well-formed pattern
StenoReferences(p) == Cardinality({i \in DOMAIN p : p[i] \in LEFT_BRACKETS})

\* letters and entries of children a well-formed pattern stands for: one
\* entry per reference, at the offset of the reference in the letters; the
\* letters of the child for (), the given letters for [letters|ref]
RECURSIVE StenoExpectedFrom(_, _, _, _)
StenoExpectedFrom(p, i, letters, map) ==
    IF i > Len(p) THEN [letters |-> letters, rulemap |-> map]
    ELSE IF p[i] \in LEFT_BRACKETS
    THEN LET j == StenoClosingOf(p, i)
             content == SubSeq(p, i + 1, j - 1)
             name == IF p[i] = "(" THEN content ELSE SpanName(content)
             text == IF p[i] = "(" THEN parser_dict[name].letters ELSE SpanAlias(content)
         IN  StenoExpectedFrom(p, j + 1, letters \o text,
                               Append(map, MapItem(parser_dict[name], Len(letters), Len(text))))
    ELSE StenoExpectedFrom(p, i + 1, Append(letters, p[i]), map)

StenoExpected(p) == StenoExpectedFrom(p, 1, <<>>, <<>>)

\* the entries of a rule map that stand for children
ChildEntries(rulemap) == SelectSeq(rulemap, LAMBDA item : item.rule.flags # <<"KEY">>)

\* a reference in square brackets that gives no letters
EmptyLetters(p) == \E i \in 1..(Len(p) - 1) : p[i] = "[" /\ p[i + 1] = "|"

\* C27: the rule map of a finished rule has one entry of a child per
\* bracketed reference of its pattern, also when the pattern holds the same
\* reference twice, each at the offset of its own occurrence in the final
\* letters; the letters of the child stand for a () reference and the given
\* letters, where some are given, for a [letters|ref] reference.
C27_EntryPerReference ==
    \A k \in DOMAIN parser_dict :
        StenoWellFormed(src_dict[k][2]) /\ ~EmptyLetters(src_dict[k][2]) =>
            /\ Len(ChildEntries(parser_dict[k].rulemap)) = StenoReferences(src_dict[k][2])
            /\ ChildEntries(parser_dict[k].rulemap) = StenoExpected(src_dict[k][2]).rulemap
            /\ parser_dict[k].letters = StenoExpected(src_dict[k][2]).letters

\* a reference of a pattern is written again later in the pattern
RepeatedReference(p) ==
    \E i, j \in DOMAIN p :
        /\ i < j /\ p[i] \in LEFT_BRACKETS /\ p[j] \in LEFT_BRACKETS
        /\ SubSeq(p, i, StenoClosingOf(p, i)) = SubSeq(p, j, StenoClosingOf(p, j))

\* what holds of the code: the statement of C27 for the patterns that hold
\* no reference twice and no reference with empty given letters
C27_Otherwise ==
    \A k \in DOMAIN parser_dict :
        (/\ StenoWellFormed(src_dict[k][2])
         /\ ~RepeatedReference(src_dict[k][2])
         /\ ~EmptyLetters(src_dict[k][2])) =>
            /\ ChildEntries(parser_dict[k].rulemap) = StenoExpected(src_dict[k][2]).rulemap
            /\ parser_dict[k].letters = StenoExpected(src_dict[k][2]).letters

----------------------------------------------------------------------------
(* C28.  The order of the requests does not show in the rules.             *)

\* what a rule holds, without the identity of the object
Content(rule) ==
    [name |-> rule.name, keys |-> rule.keys, letters |-> rule.letters,
     flags |-> rule.flags, desc |-> rule.desc, rulemap |-> rule.rulemap]

Contents(list) == [i \in DOMAIN list |-> Content(list[i])]

\* to_list() called on a new parser for the raw rules
Alone == ToList(ParserState(EmptyRules, 0, [k \in Names |-> 0]))

\* C28: when to_list() alone resolves the raw rules, every rule in store
\* after any sequence of calls holds what the rule of its name holds after
\* to_list() alone, and a to_list() after any sequence of calls returns, in
\* the order of the raw definitions, rules that hold the same as those
\* to_list() alone returns, and leaves every name in store.
C28_OrderIndependent ==
    LET same(alone) ==
            ~IsError(alone.out) =>
                /\ \A k \in DOMAIN rules : Content(rules[k]) = Content(alone.st.rules[k])
                /\ last.op = "to_list" =>
                      /\ ~IsError(last.out)
                      /\ DOMAIN rules = DOMAIN alone.st.rules
                      /\ Contents(last.out.value) = Contents(alone.out.value)
                      /\ [i \in DOMAIN last.out.value |-> last.out.value[i].name] = RawOrder
    IN  same(Alone)

\* to_list() has returned on a parser that had resolved the rules in another
\* order than to_list() alone does: a rule that refers to another is not the
\* object of the same number
C28_Witness ==
    /\ last.op = "to_list"
    /\ ~IsError(last.out)
    /\ ~IsError(Alone.out)
    /\ \E k \in DOMAIN rules :
          /\ rules[k].rulemap # <<>>
          /\ rules[k].id # Alone.st.rules[k].id

----------------------------------------------------------------------------
(* C29.  Every request ends.  A RuleParser on raw rules of which one has   *)
(* the empty name.                                                         *)

TermDefinitions ==
    \* text; a right bracket before a left one; references to C, to A and to
    \* the rule of the empty name
    {<<"K", <<"a">>>>, <<"K", <<rb, lb>>>>, <<"K", Ref(NameC)>>, <<"K", Ref(NameA)>>,
     <<"K", Ref(NameE)>>}

TermInit ==
    /\ NoStenoRuleParser
    /\ NoMatcher
    /\ NoThreads
    /\ NoAnalyzer
    /\ NoStenoKeys
    /\ NoInverse
    /\ NoApps
    /\ raw \in [Names \cup {NameE} -> TermDefinitions]
    /\ rules = EmptyRules
    /\ nextId = 0
    /\ parseCount = [k \in Names \cup {NameE} |-> 0]
    /\ last = [op |-> "init", arg |-> <<>>, out |-> Returned(<<>>)]
    /\ errored = FALSE

TermNext ==
    \/ \E k \in Names \cup {NameE, NameZ} : CallGet(k)
    \/ CallToList

TermSpec == TermInit /\ [][TermNext]_vars

RECURSIVE ReachAll(_, _)
ReachAll(S, n) ==
    IF n = 0 THEN S
    ELSE ReachAll(S \cup UNION {Edges(j) : j \in S \cap DOMAIN raw}, n - 1)

\* the raw rules are well formed and acyclic: every pattern is well formed
\* and refers to defined rules only, and no rule reaches itself
AcyclicWellFormed ==
    \A k \in DOMAIN raw :
        /\ FieldsOk(k) /\ WellFormed(raw[k][2]) /\ Edges(k) \subseteq DOMAIN raw
        /\ k \notin ReachAll(Edges(k), Cardinality(DOMAIN raw))

\* a request has ended with what it asked for in store, or with an error
EndsStoredOrError ==
    /\ (last.op = "get" /\ ~IsError(last.out) /\ last.arg[1] \in DOMAIN raw)
          => last.arg[1] \in DOMAIN rules
    /\ (last.op = "to_list" /\ ~IsError(last.out)) => DOMAIN rules = DOMAIN raw
    /\ (last.op = "to_list" /\ AcyclicWellFormed)
          => ~IsError(last.out) /\ DOMAIN rules = DOMAIN raw

\* C29: every request on a parser ends: no call is one that never returns;
\* it ends with every requested rule in store or with an error; and on raw
\* rules that are well formed and acyclic to_list() ends with every raw name
\* in store.
C29_Terminates ==
    /\ last.out # NeverReturns
    /\ EndsStoredOrError

----------------------------------------------------------------------------
(* InverseRuleParser (steno/rules.py): letters and a rule map are made     *)
(* into the raw definition of a rule, which a RuleParser compiles again.   *)

\* list[start:end] = new on a list, with 0-based start and end as Python
\* clamps them
SetSlice(list, start, end, new) ==
    LET s == Min(start, Len(list))
        e == Max(Min(end, Len(list)), s)
    IN  SubSeq(list, 1, s) \o new \o SubSeq(list, e + 1, Len(list))

\* "".join(list)
RECURSIVE JoinAll(_)
JoinAll(list) == IF list = <<>> THEN <<>> ELSE Head(list) \o JoinAll(Tail(list))

\* str(n) for the serial numbers of the model
str(n) == <<CASE n = 0 -> "0" [] n = 1 -> "1" [] OTHER -> "2">>

\* the loop of add from the left to the right
RECURSIVE InverseRuleParser_replace_LeftToRight(_, _, _, _, _)
InverseRuleParser_replace_LeftToRight(letters, names, positions, lengths, i) ==
    IF i > Len(names) THEN letters
    ELSE InverseRuleParser_replace_LeftToRight(
             SetSlice(letters, positions[i], positions[i] + lengths[i],
                      <<<<lb>>, names[i], <<rb>>>>),
             names, positions, lengths, i + 1)

\* InverseRuleParser.add, lines 152-154: the loop over the zipped lists from
\* the i-th item down; the name is one item of the list
RECURSIVE InverseRuleParser_replace(_, _, _, _, _)
InverseRuleParser_replace(letters, names, positions, lengths, i) ==
    IF i = 0 THEN letters
    ELSE InverseRuleParser_replace(
             SetSlice(letters, positions[i], positions[i] + lengths[i],
                      <<<<lb>>, names[i], <<rb>>>>),
             names, positions, lengths, i - 1)

\* add that goes through the rule map from the left to the right
InverseRuleParser_add_LeftToRight(inv, keys, letters, names, positions, lengths) ==
    [raw_rules |-> (str(inv.count) :>
                       <<keys, JoinAll(InverseRuleParser_replace_LeftToRight(
                                           [i \in DOMAIN letters |-> <<letters[i]>>],
                                           names, positions, lengths, 1))>>)
                   @@ inv.raw_rules,
     count |-> inv.count + 1]

\* InverseRuleParser.add(keys, letters, names, positions, lengths)
InverseRuleParser_add(inv, keys, letters, names, positions, lengths) ==
    [raw_rules |-> (str(inv.count) :>
                       <<keys, JoinAll(InverseRuleParser_replace(
                                           [i \in DOMAIN letters |-> <<letters[i]>>],
                                           names, positions, lengths, Len(names)))>>)
                   @@ inv.raw_rules,
     count |-> inv.count + 1]

\* letters[start:start + length]
Span(letters, start, length) ==
    SubSeq(letters, Min(start, Len(letters)) + 1, Min(start + length, Len(letters)))

\* the rule maps and letters an InverseRuleParser is given
MapEntries == {NameA, NameC, NameBar} \X (0..3) \X (0..2)
RuleMaps == UNION {[1..n -> MapEntries] : n \in 0..2}
InverseLetters == {<<"a", "b">>, <<"a", lb>>}

\* the raw rules a RuleParser is constructed with: those of the
\* InverseRuleParser, and for every name of the rule map a rule whose
\* letters are the letters of the first span of that name
ChildRules(letters, map) ==
    [k \in {map[i][1] : i \in DOMAIN map} |->
        LET i == CHOOSE i \in DOMAIN map :
                     map[i][1] = k /\ \A j \in 1..(i - 1) : map[j][1] # k
        IN <<"K", Span(letters, map[i][2], map[i][3])>>]

InverseInit ==
    /\ NoRuleParser
    /\ NoStenoRuleParser
    /\ NoMatcher
    /\ NoThreads
    /\ NoAnalyzer
    /\ NoStenoKeys
    /\ inverse = [raw_rules |-> <<>>, count |-> 0, added |-> <<>>]
    /\ NoApps

\* a caller evaluates add(keys, letters, names, positions, lengths) on the
\* InverseRuleParser as constructed: the rule it adds is the one named "0"
CallAdd(letters, map) ==
    /\ raw = <<>>
    /\ inverse.raw_rules = <<>>
    /\ LET added(inv) ==
               inverse' = [raw_rules |-> inv.raw_rules, count |-> inv.count,
                           added |-> Append(inverse.added, [letters |-> letters, map |-> map])]
       IN added(InverseRuleParser_add(inverse, "K", letters,
                                      [i \in DOMAIN map |-> map[i][1]],
                                      [i \in DOMAIN map |-> map[i][2]],
                                      [i \in DOMAIN map |-> map[i][3]]))
    /\ UNCHANGED <<parserVars, stenoVars, matcherVars, threadVars, analyzerVars, keysVars,
                 appVars>>

\* a caller evaluates RuleParser({**inverse.to_dict(), **children})
ConstructParser ==
    /\ raw = <<>>
    /\ inverse.count > 0
    /\ raw' = inverse.raw_rules
                @@ ChildRules(inverse.added[1].letters, inverse.added[1].map)
    /\ rules' = EmptyRules
    /\ nextId' = 0
    /\ parseCount' = [k \in DOMAIN raw' |-> 0]
    /\ last' = [op |-> "init", arg |-> <<>>, out |-> Returned(<<>>)]
    /\ errored' = FALSE
    /\ UNCHANGED <<stenoVars, matcherVars, threadVars, analyzerVars, keysVars, inverseVars, appVars>>

InverseNext ==
    \/ \E letters \in InverseLetters, map \in RuleMaps : CallAdd(letters, map)
    \/ ConstructParser
    \/ raw # <<>> /\ \E k \in {Name0, NameA, NameZ} : CallGet(k)
    \/ raw # <<>> /\ CallToList

InverseSpec == InverseInit /\ [][InverseNext]_vars

----------------------------------------------------------------------------
(* C30.  A rule made by InverseRuleParser compiles into what it was made   *)
(* from.                                                                   *)

Added == inverse.added[1]

\* the rule map as RuleParser writes it
AsItems(map) == [i \in DOMAIN map |-> RuleMapItem(map[i][1], map[i][2], map[i][3])]

\* the spans of a rule map are inside the letters, sorted by position, and
\* none reaches into the next
SortedInside(letters, map) ==
    /\ \A i \in DOMAIN map : map[i][2] + map[i][3] <= Len(letters)
    /\ \A i \in 1..(Len(map) - 1) : map[i][2] + map[i][3] <= map[i + 1][2]

\* the rules of the names have the letters of the spans they stand for
LettersEqualSpans(letters, map) ==
    \A i \in DOMAIN map : raw[map[i][1]][2] = Span(letters, map[i][2], map[i][3])

RoundTripCase ==
    /\ raw # <<>>
    /\ {lb, rb} \cap Range(Added.letters) = {}
    /\ SortedInside(Added.letters, Added.map)
    /\ LettersEqualSpans(Added.letters, Added.map)

\* no name of the rule map holds a delimiter of the pattern syntax
PlainNames(map) == \A i \in DOMAIN map : Range(map[i][1]) \cap {lb, rb, alias_delim} = {}

\* the rule made by add compiles into the letters and the rule map given
RoundTrip ==
    /\ (last.op = "get" /\ last.arg = <<Name0>>) \/ last.op = "to_list"
          => ~IsError(last.out) /\ Name0 \in DOMAIN rules
    /\ Name0 \in DOMAIN rules =>
          /\ rules[Name0].letters = Added.letters
          /\ rules[Name0].rulemap = AsItems(Added.map)

\* C30 as stated: for letters without a reference delimiter and a rule map
\* sorted by position, with spans inside the letters that do not overlap,
\* the pattern add makes, compiled against rules whose letters are the spans,
\* gives the letters and the rule map again.
C30_Original == RoundTripCase => RoundTrip

\* C30, amended: the same, for the rule maps whose names hold no reference
\* delimiter and no alias delimiter.
C30_InverseRoundTrip == RoundTripCase /\ PlainNames(Added.map) => RoundTrip

\* a rule of two spans, one of no letters at the start of the other, has
\* been made, compiled and returned
C30_Witness ==
    /\ RoundTripCase
    /\ PlainNames(Added.map)
    /\ Len(Added.map) = 2
    /\ Added.map[1][3] = 0 /\ Added.map[2][3] > 0 /\ Added.map[1][2] = Added.map[2][2]
    /\ last.op = "get" /\ last.arg = <<Name0>>
    /\ rules[Name0].rulemap = AsItems(Added.map)

----------------------------------------------------------------------------
(* IndexCompiler (steno/rules.py) called directly: the translations of an  *)
(* index are split into shards, every shard is added to an IndexCompiler   *)
(* of its own, and the dicts of the shards are merged.                     *)

\* No further translation is added once this many were.
MaxIndexAdds == 2

Shards == {1, 2}

\* the merge of two partial indices: the union of the entries under each
\* rule name; an entry of the second replaces one of the first
merge(a, b) ==
    [n \in DOMAIN a \cup DOMAIN b |->
        IF n \notin DOMAIN a THEN b[n]
        ELSE IF n \notin DOMAIN b THEN a[n]
        ELSE [k \in DOMAIN a[n] \cup DOMAIN b[n] |->
                 IF k \in DOMAIN b[n] THEN b[n][k] ELSE a[n][k]]]

\* the translations and the names they are added under
IndexKeys == {<<"S">>, <<"T">>, <<"K">>}
IndexLetters == {<<"a">>, <<"b">>}
IndexNames == {<<>>, <<NameA>>, <<NameA, NameB>>}

IndexInit ==
    /\ NoRuleParser
    /\ NoStenoRuleParser
    /\ NoMatcher
    /\ NoThreads
    /\ NoAnalyzer
    /\ NoStenoKeys
    /\ NoInverse
    /\ NoPlover /\ NoGUI /\ NoBot
    /\ index = [compilers |-> [c \in Shards |-> <<>>], added |-> <<>>, merged |-> <<>>]

\* the worker of shard c evaluates add(keys, letters, names) on its compiler
CallIndexAdd(c, keys, letters, names) ==
    /\ Len(index.added) < MaxIndexAdds
    /\ index' = [compilers |-> [index.compilers EXCEPT
                                   ![c] = IndexCompiler_add(@, keys, letters, names)],
                 added |-> Append(index.added, [shard |-> c, keys |-> keys,
                                                letters |-> letters, names |-> names]),
                 merged |-> <<>>]
    /\ UNCHANGED <<parserVars, stenoVars, matcherVars, threadVars, analyzerVars, keysVars,
                   inverseVars, plover, gui, bot>>

\* the dicts of the shards are merged, the first shard first
MergeShards ==
    /\ index.merged = <<>>
    /\ index' = [index EXCEPT !.merged = <<merge(index.compilers[1], index.compilers[2])>>]
    /\ UNCHANGED <<parserVars, stenoVars, matcherVars, threadVars, analyzerVars, keysVars,
                   inverseVars, plover, gui, bot>>

IndexNext ==
    \/ \E c \in Shards, keys \in IndexKeys, letters \in IndexLetters, names \in IndexNames :
           CallIndexAdd(c, keys, letters, names)
    \/ MergeShards

IndexSpec == IndexInit /\ [][IndexNext]_vars

----------------------------------------------------------------------------
(* C31.  The index is the union of what was added, whatever the order and  *)
(* the shards.                                                             *)

\* the adds a compiler was given, in order; those of every compiler
AddsOf(c) == SelectSeq(index.added, LAMBDA a : a.shard = c)

\* add i of the sequence puts keys k under the name n
PutsUnder(adds, i, n, k) ==
    adds[i].keys = k /\ \E j \in DOMAIN adds[i].names : adds[i].names[j] = n

\* the index that holds, under every name, the keys added under it with the
\* letters of the last add of those keys under that name
ExactIndex(adds) ==
    LET names == {n \in {NameA, NameB} : \E i \in DOMAIN adds, k \in IndexKeys :
                                            PutsUnder(adds, i, n, k)}
        keysOf(n) == {k \in IndexKeys : \E i \in DOMAIN adds : PutsUnder(adds, i, n, k)}
        lastOf(n, k) == CHOOSE i \in DOMAIN adds :
                            /\ PutsUnder(adds, i, n, k)
                            /\ \A j \in DOMAIN adds : PutsUnder(adds, j, n, k) => j <= i
    IN [n \in names |-> [k \in keysOf(n) |-> adds[lastOf(n, k)].letters]]

\* the index a set of adds with pairwise distinct keys stands for: no order
\* and no shard is part of it
UnionIndex(addSet) ==
    LET under(n) == {a \in addSet : \E j \in DOMAIN a.names : a.names[j] = n}
    IN [n \in {m \in {NameA, NameB} : under(m) # {}} |->
           [k \in {a.keys : a \in under(n)} |->
               (CHOOSE a \in under(n) : a.keys = k).letters]]

KeysDistinct ==
    \A i, j \in DOMAIN index.added : i # j => index.added[i].keys # index.added[j].keys

\* what an add says without its shard
Translation(a) == [keys |-> a.keys, letters |-> a.letters, names |-> a.names]

\* C31: after any sequence of add calls the index of a compiler holds, under
\* every name, exactly the translations added under that name, a later add
\* of the same keys under the same name replacing the letters; and when the
\* keys of the translations are pairwise distinct the merged index is the
\* union of the translations, whatever their order and their shards.
C31_IndexUnion ==
    /\ \A c \in Shards : index.compilers[c] = ExactIndex(AddsOf(c))
    /\ (KeysDistinct /\ index.merged # <<>>) =>
           /\ index.merged[1] = UnionIndex({Translation(a) : a \in Range(index.added)})
           /\ merge(index.compilers[2], index.compilers[1]) = index.merged[1]

\* two translations with distinct keys and a common name were added, one to
\* each shard, and the shards were merged
C31_Witness ==
    /\ Len(index.added) = 2 /\ KeysDistinct /\ index.merged # <<>>
    /\ index.added[1].shard # index.added[2].shard
    /\ index.added[1].names = <<NameA, NameB>> /\ index.added[2].names = <<NameA>>
    /\ Cardinality(DOMAIN index.merged[1][NameA]) = 2

----------------------------------------------------------------------------
(* C32.  The rule _join_rules returns is the concatenation of the rules it *)
(* was given.                                                              *)

\* the rules a compound query joins: the analyses of its translations with
\* the separator rule between them
JoinedRules ==
    WithSeparators([i \in DOMAIN CompoundSeq |->
                       query(CurrentIndices, CompoundSeq[i][1], CompoundSeq[i][2]).rule],
                   RULE_SEP)

\* the keys of the first n rules one after the other; their letters; the
\* number of their letters
RECURSIVE KeysUpTo(_, _)
KeysUpTo(rs, n) == IF n = 0 THEN <<>> ELSE KeysUpTo(rs, n - 1) \o rs[n].keys

RECURSIVE LettersUpTo(_, _)
LettersUpTo(rs, n) == IF n = 0 THEN <<>> ELSE LettersUpTo(rs, n - 1) \o rs[n].letters

\* C32: the keys and letters of the compound rule are the keys and letters
\* of the joined rules, concatenated in order; connection i is rule i at the
\* sum of the lengths of the letters of the rules before it, with the length
\* of its letters; so the connections are sorted, do not overlap, are
\* contiguous and cover the letters of the compound rule exactly.
C32_JoinRules ==
    Compounded =>
        LET joins(rs, out) ==
                /\ out.keys = KeysUpTo(rs, Len(rs))
                /\ out.letters = LettersUpTo(rs, Len(rs))
                /\ Len(out.rulemap) = Len(rs)
                /\ \A i \in DOMAIN rs :
                      /\ out.rulemap[i].rule = rs[i]
                      /\ out.rulemap[i].start = Len(LettersUpTo(rs, i - 1))
                      /\ out.rulemap[i].length = Len(rs[i].letters)
                /\ out.rulemap # <<>> => out.rulemap[1].start = 0
                /\ \A i \in 1..(Len(out.rulemap) - 1) :
                      /\ out.rulemap[i].start <= out.rulemap[i + 1].start
                      /\ out.rulemap[i].start + out.rulemap[i].length
                             = out.rulemap[i + 1].start
                /\ out.rulemap # <<>> =>
                      out.rulemap[Len(out.rulemap)].start
                          + out.rulemap[Len(out.rulemap)].length = Len(out.letters)
        IN joins(JoinedRules, analysis.out[1])

\* a compound rule of five connections, whose third one starts after a rule
\* of two letters and whose letters are those of three translations
C32_Witness ==
    /\ Compounded
    /\ Len(CompoundMap) = 5
    /\ CompoundMap[1].length = 1
    /\ CompoundMap[3].start = 1 /\ CompoundMap[3].length = 1
    /\ CompoundMap[5].start = 2 /\ CompoundMap[5].length = 2
    /\ Len(analysis.out[1].letters) = 4

----------------------------------------------------------------------------
(* PloverPluginInterface (plover/interface.py): Plover calls                *)
(* on_new_translation with the new actions after every translation; the    *)
(* interface reads the latest translation from the translator state and    *)
(* keeps the strokes and text of the last analysis.                        *)
(* An Optional value is <<>> for None and <<v>> for the value v.           *)

\* No further translation is made once this many were.
MaxTranslations == 3

\* spectra_lexer.keys.join_strokes: the strokes with the stroke separator
\* between them
RECURSIVE join_strokes(_)
join_strokes(strokes) ==
    IF strokes = <<>> THEN <<>>
    ELSE IF Len(strokes) = 1 THEN strokes[1]
    ELSE strokes[1] \o <<KEY_SEP>> \o join_strokes(Tail(strokes))

\* str.isalnum on a character
isalnum(c) == c \in {"a", "b", "c", "1"}

\* the truth value Python gives an Optional[str]
Truthy(opt) == opt # <<>> /\ opt[1] # <<>>

\* [a.text for a in new if a.text]
ActionTexts(new) ==
    LET kept == SelectSeq(new, LAMBDA a : Truthy(a.text))
    IN [i \in DOMAIN kept |-> kept[i].text[1]]

\* on_new_translation that saves nothing new when it skips the analysis
on_new_translation_KeepsOnSkip(self, new, t) ==
    LET t_text == IF t # <<>> THEN t[1].english ELSE <<>>
        attach == new # <<>> /\ new[1].prev_attach
        strokes == (IF attach THEN self.last_strokes ELSE <<>>)
                       \o (IF t # <<>> THEN t[1].rtfcre ELSE <<>>)
        text == (IF attach THEN self.last_text ELSE <<>>) \o ActionTexts(new)
    IN IF new # <<>> /\ Truthy(t_text) /\ \E i \in DOMAIN t_text[1] : isalnum(t_text[1][i])
       THEN [last_strokes |-> strokes, last_text |-> text, analyzed |-> TRUE,
             sent |-> <<join_strokes(strokes), JoinAll(text)>>]
       ELSE [last_strokes |-> self.last_strokes, last_text |-> self.last_text,
             analyzed |-> FALSE, sent |-> <<>>]

\* on_new_translation that starts from the saved strokes and text whatever
\* the first action says
on_new_translation_AlwaysAttaches(self, new, t) ==
    LET t_text == IF t # <<>> THEN t[1].english ELSE <<>>
        strokes == self.last_strokes \o (IF t # <<>> THEN t[1].rtfcre ELSE <<>>)
        text == self.last_text \o ActionTexts(new)
    IN IF new # <<>> /\ Truthy(t_text) /\ \E i \in DOMAIN t_text[1] : isalnum(t_text[1][i])
       THEN [last_strokes |-> strokes, last_text |-> text, analyzed |-> TRUE,
             sent |-> <<join_strokes(strokes), JoinAll(text)>>]
       ELSE [last_strokes |-> <<>>, last_text |-> <<>>, analyzed |-> FALSE, sent |-> <<>>]

\* PloverPluginInterface.on_new_translation(_, new), with t the last of
\* plover.translator_state.translations or None: the strokes and text it
\* saves, whether it made a lexer query, and the arguments of that query
on_new_translation(self, new, t) ==
    LET t_strokes == IF t # <<>> THEN t[1].rtfcre ELSE <<>>
        t_text == IF t # <<>> THEN t[1].english ELSE <<>>
    IN IF new # <<>> /\ Truthy(t_text) /\ \E i \in DOMAIN t_text[1] : isalnum(t_text[1][i])
       THEN LET new_strokes == (IF new[1].prev_attach THEN self.last_strokes ELSE <<>>)
                                   \o t_strokes
                new_text == (IF new[1].prev_attach THEN self.last_text ELSE <<>>)
                                \o ActionTexts(new)
            IN [last_strokes |-> new_strokes, last_text |-> new_text, analyzed |-> TRUE,
                sent |-> <<join_strokes(new_strokes), JoinAll(new_text)>>]
       ELSE [last_strokes |-> <<>>, last_text |-> <<>>, analyzed |-> FALSE, sent |-> <<>>]

\* the actions and translations Plover gives
PloverAction(prev_attach, text) == [prev_attach |-> prev_attach, text |-> text]

PloverActions ==
    {<<>>,
     <<PloverAction(FALSE, <<<<"a">>>>)>>,
     <<PloverAction(TRUE, <<<<"a">>>>)>>,
     <<PloverAction(TRUE, <<>>)>>,
     <<PloverAction(FALSE, <<<<>>>>)>>,
     <<PloverAction(TRUE, <<<<"b">>>>), PloverAction(FALSE, <<>>),
       PloverAction(FALSE, <<<<"c", " ">>>>)>>,
     <<PloverAction(FALSE, <<>>), PloverAction(TRUE, <<<<"b">>>>)>>}

PloverTranslation(rtfcre, english) == [rtfcre |-> rtfcre, english |-> english]

PloverTranslations ==
    {<<>>,
     <<PloverTranslation(<<<<"S">>>>, <<>>)>>,
     <<PloverTranslation(<<<<"S">>>>, <<<<>>>>)>>,
     <<PloverTranslation(<<<<"S">>>>, <<<<"-", " ">>>>)>>,
     <<PloverTranslation(<<<<"S">>>>, <<<<"a">>>>)>>,
     <<PloverTranslation(<<<<"T">>, <<"S", "T">>>>, <<<<"-", "1">>>>)>>}

PloverInit ==
    /\ NoRuleParser
    /\ NoStenoRuleParser
    /\ NoMatcher
    /\ NoThreads
    /\ NoAnalyzer
    /\ NoStenoKeys
    /\ NoInverse
    /\ NoIndexCompiler /\ NoGUI /\ NoBot
    /\ plover = [last_strokes |-> <<>>, last_text |-> <<>>, calls |-> 0,
                 new |-> <<>>, t |-> <<>>, analyzed |-> FALSE, sent |-> <<>>,
                 before_strokes |-> <<>>, before_text |-> <<>>,
                 before_skipped |-> FALSE, chain |-> <<>>]

\* Plover emits 'translated' with the actions new while the last translation
\* of the translator state is t.  The fields after sent are history: what was
\* saved when the call began, whether the call before skipped the analysis,
\* and the translations analyzed since the last one that did not attach.
CallOnNewTranslation(new, t) ==
    /\ plover.calls < MaxTranslations
    /\ LET called(r) ==
               plover' = [last_strokes |-> r.last_strokes, last_text |-> r.last_text,
                          calls |-> plover.calls + 1, new |-> new, t |-> t,
                          analyzed |-> r.analyzed, sent |-> r.sent,
                          before_strokes |-> plover.last_strokes,
                          before_text |-> plover.last_text,
                          before_skipped |-> plover.calls > 0 /\ ~plover.analyzed,
                          chain |-> IF ~r.analyzed THEN <<>>
                                    ELSE IF new[1].prev_attach
                                         THEN Append(plover.chain, t[1])
                                    ELSE <<t[1]>>]
       IN called(on_new_translation(plover, new, t))
    /\ UNCHANGED <<parserVars, stenoVars, matcherVars, threadVars, analyzerVars, keysVars,
                   inverseVars, index, gui, bot>>

PloverNext == \E new \in PloverActions, t \in PloverTranslations : CallOnNewTranslation(new, t)

PloverSpec == PloverInit /\ [][PloverNext]_vars

----------------------------------------------------------------------------
(* C33.  A skipped analysis leaves nothing saved.                          *)

\* the english text of the latest translation, None without a translation
LatestEnglish == IF plover.t = <<>> THEN <<>> ELSE plover.t[1].english

\* the call skipped the analysis: no new action, no latest translation, or
\* an English text that is empty or has no alphanumeric character
Skipped ==
    \/ plover.new = <<>>
    \/ plover.t = <<>>
    \/ LatestEnglish = <<>>
    \/ LatestEnglish[1] = <<>>
    \/ \A i \in DOMAIN LatestEnglish[1] :
           LatestEnglish[1][i] \notin {"a", "b", "c", "1"}

\* C33: after every call of on_new_translation that skipped the analysis the
\* saved strokes and text are both empty, and a call after a skipped one
\* sends the strokes of its own translation and the text of its own actions
\* only, attaching or not.
C33_SkipResets ==
    /\ (plover.calls > 0 /\ Skipped) =>
           /\ plover.sent = <<>>
           /\ plover.last_strokes = <<>> /\ plover.last_text = <<>>
    /\ (plover.calls > 0 /\ ~Skipped /\ plover.before_skipped) =>
           /\ plover.before_strokes = <<>> /\ plover.before_text = <<>>
           /\ plover.sent = <<join_strokes(plover.t[1].rtfcre),
                              JoinAll(ActionTexts(plover.new))>>

\* an analysis, then a skipped call, then an attaching action with an
\* analysis
C33_Witness ==
    /\ plover.calls = 3
    /\ ~Skipped /\ plover.before_skipped
    /\ plover.new[1].prev_attach
    /\ plover.sent = <<<<"S">>, <<"a">>>>

----------------------------------------------------------------------------
(* C34.  Attaching actions accumulate the strokes and the text.            *)

\* the strokes of the translations of a chain, one translation after another
RECURSIVE ChainStrokes(_)
ChainStrokes(chain) ==
    IF chain = <<>> THEN <<>> ELSE chain[1].rtfcre \o ChainStrokes(Tail(chain))

\* C34: when an analysis is made and the first new action attaches, the
\* strokes and text of the query are those saved by the call before followed
\* by the strokes of the latest translation and the text of the new actions;
\* when it does not attach they are the latter only.  After the call the
\* saved strokes and text are those of the query, so k attaching
\* translations in a row send the strokes of all k + 1 translations in order.
C34_Accumulates ==
    (plover.calls > 0 /\ ~Skipped) =>
        LET strokes == (IF plover.new[1].prev_attach THEN plover.before_strokes ELSE <<>>)
                           \o plover.t[1].rtfcre
            text == (IF plover.new[1].prev_attach THEN plover.before_text ELSE <<>>)
                        \o ActionTexts(plover.new)
        IN /\ plover.sent = <<join_strokes(strokes), JoinAll(text)>>
           /\ plover.last_strokes = strokes
           /\ plover.last_text = text
           /\ plover.last_strokes = ChainStrokes(plover.chain)

\* three translations in a row were analyzed, the second and the third
\* attaching, and the strokes of all three were sent
C34_Witness ==
    /\ plover.calls = 3 /\ ~Skipped
    /\ Len(plover.chain) = 3
    /\ plover.chain[1] # plover.chain[2]
    /\ plover.sent[1] = <<"S", KEY_SEP, "T", KEY_SEP, "S", "T", KEY_SEP, "S">>

----------------------------------------------------------------------------
(* QtGUIExtension (gui_qt/ext/base.py): the menu item "Make Index..." and  *)
(* the dialog of the first start make an index on a worker thread of the   *)
(* steno engine, which calls back on the GUI thread when it is done.       *)
(* The dialogs are modal: while one is open no menu item is chosen.        *)
(* An index is the record of the size it was made with and of the build    *)
(* that made it.                                                           *)

\* No further index is made once this many were.
MaxBuilds == 3

IndexSizes == {1, 2, 3}

\* QtGUIExtension._show_message(s)
QtGUIExtension_show_message(g, s) == [g EXCEPT !.status = s]

\* QtGUIExtension._set_enabled(enabled): the menu and the main GUI
QtGUIExtension_set_enabled(g, enabled) ==
    [g EXCEPT !.menu_enabled = enabled, !.gui_enabled = enabled,
              !.log = Append(@, IF enabled THEN "enable" ELSE "disable")]

\* self._steno.LXAnalyzerMakeIndex(index_size, qt_callback=self._on_index_done):
\* a worker thread starts on the index
LXAnalyzerMakeIndex(g, index_size) ==
    [g EXCEPT !.worker = "running", !.size = index_size, !.builds = @ + 1,
              !.log = Append(@, "make")]

\* self._steno.RSIndexSave(index) and self._steno.RSIndexReady(index)
RSIndexSave(g, new_index) == [g EXCEPT !.saved = <<new_index>>, !.log = Append(@, "save")]
RSIndexReady(g, new_index) == [g EXCEPT !.ready = <<new_index>>, !.log = Append(@, "ready")]

\* QtGUIExtension._make_index(index_size); the log starts again
QtGUIExtension_make_index(g, index_size) ==
    LXAnalyzerMakeIndex(
        QtGUIExtension_show_message(
            QtGUIExtension_set_enabled([g EXCEPT !.log = <<>>], FALSE),
            "Making new index..."),
        index_size)

\* _on_index_done that saves and publishes and leaves the GUI as it is
QtGUIExtension_on_index_done_StaysDisabled(g, new_index) ==
    QtGUIExtension_show_message(RSIndexReady(RSIndexSave(g, new_index), new_index),
                                "Successfully created index!")

\* QtGUIExtension._on_index_done(index)
QtGUIExtension_on_index_done(g, new_index) ==
    QtGUIExtension_set_enabled(
        QtGUIExtension_show_message(RSIndexReady(RSIndexSave(g, new_index), new_index),
                                    "Successfully created index!"),
        TRUE)

\* QtGUIExtension.index_missing(), with the size the dialog returned, 0 when
\* the user declined
QtGUIExtension_index_missing(g, index_size) ==
    IF index_size # 0 THEN QtGUIExtension_make_index(g, index_size)
    ELSE QtGUIExtension_show_message(RSIndexSave(g, <<>>), "Skipped index creation.")

\* QtGUIExtension.FileOpenTranslations() and FileOpenIndex(), with what the
\* file dialog returned: nothing when the user cancelled
QtGUIExtension_FileOpenTranslations(g, filenames) ==
    IF filenames # <<>>
    THEN QtGUIExtension_show_message([g EXCEPT !.loaded = filenames],
                                     "Loaded translations from file dialog.")
    ELSE g

QtGUIExtension_FileOpenIndex(g, filename) ==
    IF filename # ""
    THEN QtGUIExtension_show_message([g EXCEPT !.loaded = <<filename>>],
                                     "Loaded index from file dialog.")
    ELSE g

GuiInit ==
    /\ NoRuleParser
    /\ NoStenoRuleParser
    /\ NoMatcher
    /\ NoThreads
    /\ NoAnalyzer
    /\ NoStenoKeys
    /\ NoInverse
    /\ NoIndexCompiler /\ NoPlover /\ NoBot
    /\ \E missing \in BOOLEAN :
          gui = [menu_enabled |-> TRUE, gui_enabled |-> TRUE, status |-> "",
                 first_start |-> missing, dialog |-> "none", worker |-> "idle",
                 size |-> 0, made |-> <<>>, builds |-> 0,
                 saved |-> <<>>, ready |-> <<>>, loaded |-> <<>>, log |-> <<>>]

GuiOthers ==
    UNCHANGED <<parserVars, stenoVars, matcherVars, threadVars, analyzerVars, keysVars,
                inverseVars, index, plover, bot>>

\* on the first start no index file is found: index_missing() is called and
\* its dialog returns a size
IndexMissing(index_size) ==
    /\ gui.first_start /\ gui.dialog = "none" /\ gui.builds = 0
    /\ gui' = QtGUIExtension_index_missing([gui EXCEPT !.first_start = FALSE], index_size)
    /\ GuiOthers

\* the user chooses File > Load Translations... or File > Load Index... and
\* answers the file dialog
FileOpenTranslations(filenames) ==
    /\ gui.menu_enabled /\ gui.dialog = "none" /\ ~gui.first_start
    /\ gui' = QtGUIExtension_FileOpenTranslations(gui, filenames)
    /\ GuiOthers

FileOpenIndex(filename) ==
    /\ gui.menu_enabled /\ gui.dialog = "none" /\ ~gui.first_start
    /\ gui' = QtGUIExtension_FileOpenIndex(gui, filename)
    /\ GuiOthers

\* the user chooses Tools > Make Index...: IndexOpen() shows the dialog
IndexOpen ==
    /\ gui.menu_enabled /\ gui.dialog = "none" /\ ~gui.first_start
    /\ gui.builds < MaxBuilds
    /\ gui' = [gui EXCEPT !.dialog = "slider"]
    /\ GuiOthers

\* the user accepts the dialog, which submits a positive size to _make_index
DialogAccept(index_size) ==
    /\ gui.dialog = "slider"
    /\ gui' = QtGUIExtension_make_index([gui EXCEPT !.dialog = "none"], index_size)
    /\ GuiOthers

\* the user closes the dialog
DialogReject ==
    /\ gui.dialog = "slider"
    /\ gui' = [gui EXCEPT !.dialog = "none"]
    /\ GuiOthers

\* the worker thread has made the index; the callback is due on the GUI thread
WorkerFinishes ==
    /\ gui.worker = "running"
    /\ gui' = [gui EXCEPT !.worker = "done",
                          !.made = <<[size |-> gui.size, build |-> gui.builds]>>]
    /\ GuiOthers

\* the GUI thread runs the callback _on_index_done(index)
OnIndexDone ==
    /\ gui.worker = "done"
    /\ gui' = QtGUIExtension_on_index_done([gui EXCEPT !.worker = "idle"], gui.made[1])
    /\ GuiOthers

GuiNext ==
    \/ \E index_size \in IndexSizes \cup {0} : IndexMissing(index_size)
    \/ \E filenames \in {<<>>, <<"t.json">>, <<"t.json", "u.json">>} :
           FileOpenTranslations(filenames)
    \/ \E filename \in {"", "i.json"} : FileOpenIndex(filename)
    \/ IndexOpen
    \/ \E index_size \in IndexSizes : DialogAccept(index_size)
    \/ DialogReject
    \/ WorkerFinishes
    \/ OnIndexDone

GuiSpec == GuiInit /\ [][GuiNext]_vars

\* the worker thread runs to its end and the event loop of the GUI thread
\* delivers the callback
GuiLiveSpec == GuiSpec /\ WF_vars(WorkerFinishes) /\ WF_vars(OnIndexDone)

----------------------------------------------------------------------------
(* C35.  The GUI is disabled for as long as an index is being made.        *)

\* an index build was started and its callback has not run
Building == gui.worker # "idle"

Enabled == gui.menu_enabled /\ gui.gui_enabled
Disabled == ~gui.menu_enabled /\ ~gui.gui_enabled

\* a step that enables the menu or the main GUI is the callback of a build,
\* which has saved the new index and then published it before
EnabledByCallback ==
    (gui'.menu_enabled /\ ~gui.menu_enabled) \/ (gui'.gui_enabled /\ ~gui.gui_enabled) =>
        /\ gui.worker = "done" /\ gui'.worker = "idle"
        /\ gui'.saved = gui.made /\ gui'.ready = gui.made
        /\ gui'.log = <<"disable", "make", "save", "ready", "enable">>
        /\ Enabled'

----------------------------------------------------------------------------
(* DiscordBot (app_discord.py): the client calls on_message with every     *)
(* message of the channels the bot reads.  A command function returns a    *)
(* bot message or None, or raises.                                         *)

\* No further message arrives once this many were handled.
MaxMessages == 2

\* str.isspace on a character
isspace(c) == c = " "

\* str.lstrip() and str.strip()
RECURSIVE str_lstrip(_)
str_lstrip(text) ==
    IF text # <<>> /\ isspace(Head(text)) THEN str_lstrip(Tail(text)) ELSE text

RECURSIVE str_rstrip(_)
str_rstrip(text) ==
    IF text # <<>> /\ isspace(text[Len(text)])
    THEN str_rstrip(SubSeq(text, 1, Len(text) - 1)) ELSE text

str_strip(text) == str_rstrip(str_lstrip(text))

\* the characters of text before its first whitespace character
RECURSIVE FirstWord(_)
FirstWord(text) ==
    IF text = <<>> \/ isspace(Head(text)) THEN <<>>
    ELSE <<Head(text)>> \o FirstWord(Tail(text))

\* text.split(None, 1): the list of at most two strings
split_None_1(text) ==
    LET body == str_lstrip(text)
        word == FirstWord(body)
        rest == str_lstrip(SubSeq(body, Len(word) + 1, Len(body)))
    IN IF body = <<>> THEN <<>>
       ELSE IF rest = <<>> THEN <<word>>
       ELSE <<word, rest>>

\* what a call of a command function does
Replies(content) == [kind |-> "reply", value |-> content]
ReturnsNone == [kind |-> "none", value |-> <<>>]
Raises(exc) == [kind |-> "raise", value |-> exc]

\* the exceptions that are instances of Exception, and those that are not
Exceptions == {"ValueError", "RuntimeError"}
BaseExceptionsOnly == {"KeyboardInterrupt", "SystemExit"}

CommandOutcomes ==
    {Replies("ok"), ReturnsNone}
    \cup {Raises(exc) : exc \in Exceptions \cup BaseExceptionsOnly}

\* what a call of on_message did: the command it called, the message it
\* sent, the exception it let out
Handled(called, reply, raised) == [called |-> called, reply |-> reply, raised |-> raised]

\* on_message without the try statement: what the command raises gets out
DiscordBot_on_message_NoTry(self, message, outcome) ==
    IF message.author = self.user THEN Handled(<<>>, <<>>, <<>>)
    ELSE IF message.content = <<>> \/ Head(message.content) # "!"
    THEN Handled(<<>>, <<>>, <<>>)
    ELSE LET parts == split_None_1(Tail(message.content))
         IN IF parts = <<>> THEN Handled(<<>>, <<>>, <<"ValueError">>)
            ELSE IF parts[1] \notin self.cmds THEN Handled(<<>>, <<>>, <<>>)
            ELSE LET call == [name |-> parts[1],
                              arg |-> IF Len(parts) > 1 THEN str_strip(parts[2]) ELSE <<>>]
                 IN CASE outcome.kind = "reply" ->
                             Handled(<<call>>, <<[channel |-> message.channel,
                                                  content |-> outcome.value]>>, <<>>)
                      [] outcome.kind = "none" -> Handled(<<call>>, <<>>, <<>>)
                      [] OTHER -> Handled(<<call>>, <<>>, <<outcome.value>>)

\* DiscordBot.on_message(message), with what the command function does if
\* it is called
DiscordBot_on_message(self, message, outcome) ==
    IF message.author = self.user THEN Handled(<<>>, <<>>, <<>>)
    ELSE IF message.content = <<>> \/ Head(message.content) # "!"
    THEN Handled(<<>>, <<>>, <<>>)
    \* cmd_name, *cmd_body = content[1:].split(None, 1)
    ELSE LET parts == split_None_1(Tail(message.content))
         IN IF parts = <<>> THEN Handled(<<>>, <<>>, <<"ValueError">>)
            ELSE IF parts[1] \notin self.cmds THEN Handled(<<>>, <<>>, <<>>)
            ELSE LET call == [name |-> parts[1],
                              arg |-> IF Len(parts) > 1 THEN str_strip(parts[2]) ELSE <<>>]
                 IN CASE outcome.kind = "reply" ->
                             Handled(<<call>>, <<[channel |-> message.channel,
                                                  content |-> outcome.value]>>, <<>>)
                      [] outcome.kind = "none" -> Handled(<<call>>, <<>>, <<>>)
                      \* except Exception
                      [] outcome.value \in Exceptions ->
                             Handled(<<call>>,
                                     <<[channel |-> message.channel,
                                        content |-> "Command parse error."]>>, <<>>)
                      [] OTHER -> Handled(<<call>>, <<>>, <<outcome.value>>)

\* the messages of the channels
MaxContentLen == 3
ContentChars == {"!", "s", " "}
MessageContents == UNION {[1..n -> ContentChars] : n \in 0..MaxContentLen}
Authors == {"bot", "user"}
Channels == {"c1", "c2"}

BotInit ==
    /\ NoRuleParser
    /\ NoStenoRuleParser
    /\ NoMatcher
    /\ NoThreads
    /\ NoAnalyzer
    /\ NoStenoKeys
    /\ NoInverse
    /\ NoIndexCompiler /\ NoPlover /\ NoGUI
    /\ bot = [user |-> "bot", cmds |-> {<<"s">>}, running |-> TRUE, handled |-> 0,
              message |-> <<>>, outcome |-> <<>>,
              called |-> <<>>, reply |-> <<>>, raised |-> <<>>, before |-> <<>>]

\* the client calls on_message(message); the command function, if called,
\* does what outcome says (one outcome stands for all when no command
\* function is called).  The client logs an exception of an event and goes
\* on; one that is no instance of Exception ends its run.  The field before
\* is history: what the message before let out.
CallOnMessage(message, outcome) ==
    /\ bot.running
    /\ bot.handled < MaxMessages
    /\ outcome = ReturnsNone \/ DiscordBot_on_message(bot, message, ReturnsNone).called # <<>>
    /\ LET done(h) ==
               bot' = [bot EXCEPT !.handled = @ + 1,
                                  !.message = <<message>>,
                                  !.outcome = IF h.called # <<>> THEN <<outcome>> ELSE <<>>,
                                  !.called = h.called, !.reply = h.reply,
                                  !.raised = h.raised,
                                  !.before = IF bot.handled = 0 THEN <<>>
                                             ELSE <<[outcome |-> bot.outcome,
                                                     raised |-> bot.raised]>>,
                                  !.running = (h.raised = <<>>
                                               \/ h.raised[1] \in Exceptions)]
       IN done(DiscordBot_on_message(bot, message, outcome))
    /\ UNCHANGED <<parserVars, stenoVars, matcherVars, threadVars, analyzerVars, keysVars,
                   inverseVars, index, plover, gui>>

BotNext ==
    \E author \in Authors, content \in MessageContents, channel \in Channels,
       outcome \in CommandOutcomes :
        CallOnMessage([author |-> author, content |-> content, channel |-> channel],
                      outcome)

BotSpec == BotInit /\ [][BotNext]_vars

----------------------------------------------------------------------------
(* C36.  Only a command of a user is answered.                             *)

Message == bot.message[1]

\* the text between the '!' and the first whitespace of the content
CommandText == FirstWord(Tail(Message.content))

\* the message is a command: not of the bot itself, with a content that
\* starts with '!' and a registered name between the '!' and the first
\* whitespace
IsCommand ==
    /\ Message.author # bot.user
    /\ Message.content # <<>> /\ Head(Message.content) = "!"
    /\ CommandText \in bot.cmds

\* C36: on_message calls a command function, and sends a reply, only for a
\* message that is not of the bot itself, whose content starts with '!' and
\* whose text between the '!' and the first whitespace is a registered
\* command name; every other message, a bare '!' among them, is ignored:
\* nothing is sent and nothing is raised.
C36_CommandFilter ==
    bot.handled > 0 =>
        /\ (bot.called # <<>> \/ bot.reply # <<>>) => IsCommand
        /\ ~IsCommand => bot.called = <<>> /\ bot.reply = <<>> /\ bot.raised = <<>>

\* the same for the messages whose '!' is not followed by whitespace or by
\* the end of the content
C36_Otherwise ==
    (bot.handled > 0 /\ (Len(Message.content) >= 2 => ~isspace(Message.content[2]))
                     /\ Message.content # <<"!">>) =>
        /\ (bot.called # <<>> \/ bot.reply # <<>>) => IsCommand
        /\ ~IsCommand => bot.called = <<>> /\ bot.reply = <<>> /\ bot.raised = <<>>

----------------------------------------------------------------------------
(* C37.  What a command raises is answered, not let out.                   *)

CommandRaised == bot.outcome # <<>> /\ bot.outcome[1].kind = "raise"

ParseErrorReply == <<[channel |-> Message.channel, content |-> "Command parse error."]>>

\* the claim as written: whatever the command raises
C37_Original ==
    /\ CommandRaised => bot.raised = <<>> /\ bot.reply = ParseErrorReply /\ bot.running
    /\ (bot.outcome # <<>> /\ bot.outcome[1].kind = "none") => bot.reply = <<>>

\* C37: when a registered command function raises an exception that is an
\* instance of Exception, on_message does not let it out: it replies
\* 'Command parse error.' on the channel of the message, and the bot handles
\* the messages after it; when the command returns None no reply is sent.
C37_ErrorReply ==
    /\ (CommandRaised /\ bot.outcome[1].value \in Exceptions) =>
           bot.raised = <<>> /\ bot.reply = ParseErrorReply /\ bot.running
    /\ (bot.outcome # <<>> /\ bot.outcome[1].kind = "none") =>
           bot.reply = <<>> /\ bot.raised = <<>>
    /\ (bot.before # <<>> /\ bot.before[1].outcome # <<>>
          /\ bot.before[1].outcome[1].kind = "raise"
          /\ bot.before[1].outcome[1].value \in Exceptions) =>
           bot.before[1].raised = <<>>

\* a command raised an Exception and was answered, and the message after it,
\* a command on the other channel, was answered too
C37_Witness ==
    /\ bot.handled = 2
    /\ bot.before # <<>> /\ bot.before[1].outcome = <<Raises("ValueError")>>
    /\ bot.before[1].raised = <<>>
    /\ Message.content = <<"!", "s", " ">>
    /\ bot.called = <<[name |-> <<"s">>, arg |-> <<>>]>>
    /\ bot.reply = <<[channel |-> "c2", content |-> "ok"]>>

====
